---- MODULE Spec2Model ----
(***************************************************************************)
(* A model of the job-coordination core of the SVG optimization page:      *)
(* WorkerMessenger (the request/response channel to a web worker), Svgo    *)
(* (the job runner built on it), ResultsCache, Settings (the panel and its *)
(* fingerprint) and MainController (the orchestrator of input loads and    *)
(* settings changes).                                                      *)
(*                                                                         *)
(* The page runs on the JavaScript event loop.  A task (a user event or a  *)
(* worker message) runs to completion and is followed by all the promise   *)
(* reactions it queued, in first-in first-out order, before the next task  *)
(* starts.  The model keeps that queue in mq: every task is one action,    *)
(* enabled only when mq is empty, and every promise reaction is one        *)
(* action that takes the head of mq.                                       *)
(***************************************************************************)
EXTENDS Integers, Sequences, FiniteSets, TLC

VARIABLES
  chan,   \* the Svgo instance's WorkerMessenger fields, and what became of each request
  mq,     \* the microtask queue: promise reactions waiting to run
  jobs,   \* the promise chain of Svgo.process: one record per call, in call order
  ctl,    \* MainController's fields and what its UI components show
  cycles, \* one record per call of MainController._compressSvg
  loads,  \* one record per call of MainController._onInputChange
  log,    \* the calls a client of a bare ResultsCache has made on it, in order
  sw,     \* the service workers of the registration, the caches and the key-value store
  last    \* the operation the last step performed (for stating per-operation claims)

vars == <<chan, mq, jobs, ctl, cycles, loads, log, sw, last>>

(***************************************************************************)
(* Bounds of the model.                                                    *)
(***************************************************************************)
MaxSend == 3      \* requests a client of the bare channel sends
MaxSubmits == 3   \* calls of process and wrapOriginal a client of the bare job runner makes
MaxEvents == 3    \* user events (input loads and settings changes) of the page
MaxCacheSize == 3 \* the largest size a bare ResultsCache is constructed with
MaxCacheOps == 5  \* calls of add and purge a client of a bare ResultsCache makes
MaxPrecision == 2 \* the largest value of a range input of the settings panel
MaxFiles == 2     \* SvgFile objects a bare client of SvgFile constructs
MaxSizeCalls == 4 \* calls of size() a bare client of SvgFile makes
MaxUpdates == 3   \* calls of _updateForFile a bare client of the results display makes
SmallCacheSize == 1 \* the size of the page's cache where evictions are to happen within MaxEvents
MaxWorkers == 3   \* versions of the service worker that are deployed, one after the other

(***************************************************************************)
(* Values.                                                                 *)
(***************************************************************************)
Undefined == "undefined"

\* JavaScript truthiness of a message field that is absent or a string.
Truthy(x) == x \notin {Undefined, ""}

\* The error argument of _fulfillPending: an exception object, or a falsy value.
NoError == [name |-> "none", message |-> ""]
NewError(message) == [name |-> "Error", message |-> message]
AbortError == [name |-> "AbortError", message |-> "AbortError"]

\* A promise returned by requestResponse: pending, resolved with a value, or
\* rejected with an exception.
PendingPromise == [state |-> "pending", name |-> "none", value |-> Undefined]
Resolved(value) == [state |-> "resolved", name |-> "none", value |-> value]
Rejected(error) == [state |-> "rejected", name |-> error.name, value |-> error.message]

\* Who awaits a request: nobody the model follows (a client of the bare channel).
NoOwner == <<"raw">>

\* The bare channel never reads a message's payload: its client sends messages
\* without an action, as Gzip.compress does.
NoAction == "none"
Results == {Undefined, "result"}
ErrorTexts == {Undefined, "", "bad input"}

Min(S) == CHOOSE x \in S : \A y \in S : x <= y
Max(S) == CHOOSE x \in S : \A y \in S : x >= y

(***************************************************************************)
(* The service worker's values.  A version is the string the build puts    *)
(* in sw.js, kept as its sequence of characters so that split('.') is      *)
(* computed; a cache name is its prefix and what follows it.               *)
(***************************************************************************)
Versions == { <<"1", ".", "0">>, <<"1", ".", "1">>, <<"2", ".", "0">>, <<"1", "0", ".", "0">> }

\* idbKeyval.get of a key that was never set gives undefined.
NoVersion == <<>>

\* The index of the first '.' of a string, or one past its end.
FirstDot(v) == Min({i \in 1 .. Len(v) : v[i] = "."} \cup {Len(v) + 1})

\* v.split('.')[0]
Major(v) == SubSeq(v, 1, FirstDot(v) - 1)

\* The test of install: !activeVersion ||
\* activeVersion.split('.')[0] === version.split('.')[0]
SkipsWaiting(activeVersion, version) ==
  \/ activeVersion = NoVersion
  \/ Major(activeVersion) = Major(version)

cachePrefix == "svgomg-"
staticCacheName(version) == [prefix |-> cachePrefix, rest |-> <<"static-", version>>]
fontCacheName == [prefix |-> cachePrefix, rest |-> <<"fonts">>]
expectedCaches(version) == {staticCacheName(version), fontCacheName}

\* A cache of the origin that is not this application's.
OtherCacheName == [prefix |-> "other-", rest |-> <<"cache">>]

\* The registration before the first service worker is installed: no worker,
\* nothing under 'active-version', none of the application's caches.
NewRegistration ==
  [workers |-> <<>>, store |-> NoVersion, caches |-> {OtherCacheName}]

\* A service worker whose install event is being dispatched.
NewWorker(version) ==
  [version |-> version, state |-> "installing", pc |-> "open",
   activeVersion |-> PendingPromise, skipWaiting |-> FALSE, cacheNames |-> {}]

(***************************************************************************)
(* The world the handlers act on: a handler is an operator from world to   *)
(* world, so that a handler's calls compose in program order.              *)
(***************************************************************************)
World ==
  [chan |-> chan, mq |-> mq, jobs |-> jobs, ctl |-> ctl, cycles |-> cycles,
   loads |-> loads, log |-> log, sw |-> sw]

Commit(w) ==
  /\ chan' = w.chan
  /\ mq' = w.mq
  /\ jobs' = w.jobs
  /\ ctl' = w.ctl
  /\ cycles' = w.cycles
  /\ loads' = w.loads
  /\ log' = w.log
  /\ sw' = w.sw

(***************************************************************************)
(* WorkerMessenger                                                         *)
(***************************************************************************)
\* constructor: no request issued, nothing pending, no worker.  nworkers and
\* terminated record the Worker objects created and terminated so far; reqs
\* records, per request id, its action, the worker it was posted to, its
\* promise and who awaits it.
NewMessenger ==
  [requestId |-> 0, pending |-> {}, worker |-> 0,
   nworkers |-> 0, terminated |-> {}, reqs |-> <<>>,
   posted |-> {}]   \* <<g, id>>: worker g was posted the message of that id

\* resolver[0](result) / resolver[1](error): settles the promise of request id
\* and queues the reaction of whoever awaits it.
Settle(w, id, outcome) ==
  LET r == w.chan.reqs[id] IN
  IF r.promise.state # "pending" THEN w
  ELSE [w EXCEPT !.chan.reqs[id].promise = outcome,
                 !.mq = IF r.owner = NoOwner THEN @ ELSE Append(@, r.owner)]

\* _startWorker: a new Worker object replaces the handle.
StartWorker(w) ==
  [w EXCEPT !.chan.nworkers = @ + 1, !.chan.worker = w.chan.nworkers + 1]

\* this._worker.terminate()
Terminate(w) ==
  [w EXCEPT !.chan.terminated = @ \cup {w.chan.worker}]

\* A variant of _fulfillPending that settles the oldest entry when the id has none.
FulfillPendingAnyEntry(w, id, result, error) ==
  IF w.chan.pending = {} THEN w
  ELSE LET k == IF id \in w.chan.pending THEN id ELSE Min(w.chan.pending)
           w1 == [w EXCEPT !.chan.pending = @ \ {k}] IN
       IF error # NoError THEN Settle(w1, k, Rejected(error))
       ELSE Settle(w1, k, Resolved(result))

\* A variant of _fulfillPending that settles the promise and keeps the entry.
FulfillPendingKeepsEntry(w, id, result, error) ==
  IF id \notin w.chan.pending THEN w
  ELSE IF error # NoError THEN Settle(w, id, Rejected(error))
       ELSE Settle(w, id, Resolved(result))

\* _fulfillPending(id, result, error)
FulfillPending(w, id, result, error) ==
  IF id \notin w.chan.pending THEN w
  ELSE LET w1 == [w EXCEPT !.chan.pending = @ \ {id}] IN
       IF error # NoError THEN Settle(w1, id, Rejected(error))
       ELSE Settle(w1, id, Resolved(result))

\* _abortPending: Object.keys lists the integer keys in ascending order.
RECURSIVE AbortKeys(_, _)
AbortKeys(w, keys) ==
  IF keys = {} THEN w
  ELSE LET k == Min(keys) IN
       AbortKeys(FulfillPending(w, k, Undefined, AbortError), keys \ {k})

\* A variant of _abortPending that stops after the first key.
AbortPendingFirstOnly(w) ==
  IF w.chan.pending = {} THEN w
  ELSE FulfillPending(w, Min(w.chan.pending), Undefined, AbortError)

AbortPending(w) == AbortKeys(w, w.chan.pending)

\* Variants of abort(): the emptiness test inverted, and the test left out.
AbortInverted(w) ==
  IF w.chan.pending # {} THEN w
  ELSE LET w1 == AbortPending(w)
           w2 == IF w1.chan.worker # 0 THEN Terminate(w1) ELSE w1
       IN  StartWorker(w2)

AbortAlwaysRestarts(w) ==
  LET w1 == AbortPending(w)
      w2 == IF w1.chan.worker # 0 THEN Terminate(w1) ELSE w1
  IN  StartWorker(w2)

\* A variant of abort() that starts the ids again with the new worker.
AbortResetsIds(w) ==
  IF w.chan.pending = {} THEN w
  ELSE LET w1 == AbortPending(w)
           w2 == IF w1.chan.worker # 0 THEN Terminate(w1) ELSE w1
       IN  [StartWorker(w2) EXCEPT !.chan.requestId = 0]

\* abort()
Abort(w) ==
  IF w.chan.pending = {} THEN w
  ELSE LET w1 == AbortPending(w)
           w2 == IF w1.chan.worker # 0 THEN Terminate(w1) ELSE w1
       IN  StartWorker(w2)

\* A variant of release() that starts a worker again, as abort() does.
ReleaseRestarts(w) ==
  LET w1 == AbortPending(w) IN
  IF w1.chan.worker # 0 THEN StartWorker(Terminate(w1)) ELSE w1

\* release()
Release(w) ==
  LET w1 == AbortPending(w) IN
  IF w1.chan.worker # 0 THEN [Terminate(w1) EXCEPT !.chan.worker = 0] ELSE w1

\* A variant of requestResponse that takes the lowest id without an entry.
RequestResponseReusesIds(w, action, owner) ==
  LET id == Min((1 .. (w.chan.requestId + 1)) \ w.chan.pending)
      w1 == [w EXCEPT !.chan.requestId = Max({@, id}), !.chan.pending = @ \cup {id}]
      w2 == IF w1.chan.worker = 0 THEN StartWorker(w1) ELSE w1
      r  == [action |-> action, gen |-> w2.chan.worker,
             promise |-> PendingPromise, owner |-> owner]
  IN  [w2 EXCEPT !.chan.reqs = (id :> r) @@ @,
                 !.chan.posted = @ \cup {<<w2.chan.worker, id>>}]

\* requestResponse(message): the next id, a pending entry, a worker if there
\* is none, and the message posted to the worker.
RequestResponse(w, action, owner) ==
  LET id == w.chan.requestId + 1
      w1 == [w EXCEPT !.chan.requestId = id, !.chan.pending = @ \cup {id}]
      w2 == IF w1.chan.worker = 0 THEN StartWorker(w1) ELSE w1
      r  == [action |-> action, gen |-> w2.chan.worker,
             promise |-> PendingPromise, owner |-> owner]
  IN  [w2 EXCEPT !.chan.reqs = (id :> r) @@ @,
                 !.chan.posted = @ \cup {<<w2.chan.worker, id>>}]

\* _onMessage(event), event.data = msg
OnMessage(w, msg) ==
  IF msg.id = 0 THEN w
  ELSE FulfillPending(w, msg.id, msg.result,
                      IF Truthy(msg.error) THEN NewError(msg.error) ELSE NoError)

(***************************************************************************)
(* SvgFile and the texts it holds.  A text is the input it derives from,   *)
(* the number of compression passes and cleanup transforms applied to it,  *)
(* and the fingerprint of the settings of those passes.                    *)
(***************************************************************************)
Inputs == {"d1", "d2"}

NoFingerprint == "none"
NoText == [input |-> "none", fp |-> NoFingerprint, passes |-> 0, cleans |-> 0]
OriginalText(data) == [input |-> data, fp |-> NoFingerprint, passes |-> 0, cleans |-> 0]

\* removeUnusedTextCode(svgText), once the document is loaded
RemoveUnusedTextCode(text) == [text EXCEPT !.cleans = @ + 1]

\* removeUnusualAttributes(svgText), once the document is loaded
RemoveUnusualAttributes(text) == [text EXCEPT !.cleans = @ + 1]

\* What the worker's "process" action returns for a text and settings.
Optimized(text, fp) == [text EXCEPT !.fp = fp, !.passes = @ + 1]

\* new SvgFile(text, width, height): n tells the objects apart.
NoFile == [n |-> 0, text |-> NoText]
SvgFile(n, text) == [n |-> n, text |-> text]

(***************************************************************************)
(* Settings: the inputs of the settings panel, and getSettings.  The state *)
(* of the panel is a record with one field per input: whether a checkbox   *)
(* is checked, the value of a range.  The fingerprint is a string: one     *)
(* part per input other than gzip and original, the global inputs first,   *)
(* then the plugins, joined by commas.                                     *)
(***************************************************************************)
\* this._globalInputs and this._pluginInputs, by name, in document order.
GlobalInputs ==
  <<"original", "gzip", "remUnusedTextCode", "remUnusualAttributes", "floatPrecision">>
PluginInputs == <<"plugin", "plugin2">>

\* inputEl.type
InputType(name) == IF name = "floatPrecision" THEN "range" ELSE "checkbox"

\* The values a range input takes: numbers, as strings.
RangeValues == {ToString(k) : k \in 0 .. MaxPrecision}

\* Every state of the panel.
AllSettings ==
  [original : BOOLEAN, gzip : BOOLEAN, remUnusedTextCode : BOOLEAN,
   remUnusualAttributes : BOOLEAN, floatPrecision : RangeValues,
   plugin : BOOLEAN, plugin2 : BOOLEAN]

\* The settings panel before the user touches it, and after a reset.
DefaultSettings ==
  [original |-> FALSE, gzip |-> FALSE, remUnusedTextCode |-> FALSE,
   remUnusualAttributes |-> FALSE, floatPrecision |-> ToString(1),
   plugin |-> FALSE, plugin2 |-> FALSE]

\* The states of the panel the user of the page sets: original and the two
\* cleanup options; the user leaves gzip, floatPrecision and the plugins as
\* they are.
Settings ==
  {s \in AllSettings :
     \A name \in {"gzip", "floatPrecision", "plugin", "plugin2"} :
       s[name] = DefaultSettings[name]}

Number(b) == IF b THEN 1 ELSE 0

\* array.join(separator), of strings and numbers
RECURSIVE Join(_, _)
Join(parts, separator) ==
  IF parts = <<>> THEN ""
  ELSE IF Len(parts) = 1 THEN parts[1]
  ELSE parts[1] \o separator \o Join(Tail(parts), separator)

\* A variant of the test that leaves out only the input named original.
ExcludedOriginalOnly(name) == name = "original"

\* The global inputs the fingerprint leaves out.
Excluded(name) == name \in {"gzip", "original"}

\* What the first loop of getSettings pushes on the fingerprint.
RECURSIVE GlobalParts(_, _)
GlobalParts(s, names) ==
  IF names = <<>> THEN <<>>
  ELSE LET name == Head(names)
           part == IF InputType(name) = "checkbox" THEN ToString(Number(s[name]))
                   ELSE "|" \o s[name] \o "|"
       IN  (IF Excluded(name) THEN <<>> ELSE <<part>>) \o GlobalParts(s, Tail(names))

\* A variant of the second loop that pushes nothing.
PluginPartsNone(s, names) == <<>>

\* What the second loop of getSettings pushes on the fingerprint.
RECURSIVE PluginParts(_, _)
PluginParts(s, names) ==
  IF names = <<>> THEN <<>>
  ELSE <<ToString(Number(s[Head(names)]))>> \o PluginParts(s, Tail(names))

\* output.fingerprint
Fingerprint(s) ==
  Join(GlobalParts(s, GlobalInputs) \o PluginParts(s, PluginInputs), ",")

(***************************************************************************)
(* Svgo                                                                    *)
(***************************************************************************)
NewJob(text, fp, awaiter) ==
  [state |-> "chained", req |-> 0, text |-> text, fp |-> fp, awaiter |-> awaiter,
   fn |-> PendingPromise, promise |-> PendingPromise, file |-> NoFile]

\* A variant of the test that takes this._currentJob for settled at all times.
CurrentJobSettledAlways(w) == TRUE

\* this._currentJob is settled: the promise of the last call, or the resolved
\* promise the constructor sets.
CurrentJobSettled(w) ==
  \/ w.jobs = <<>>
  \/ w.jobs[Len(w.jobs)].promise.state # "pending"

\* A variant of process that chains the job on a fresh resolved promise.
ProcessNoChain(w, text, fp, awaiter) ==
  LET w1 == Abort(w)
      j  == Len(w1.jobs) + 1
  IN  [w1 EXCEPT !.jobs = Append(@, NewJob(text, fp, awaiter)),
                 !.mq = Append(@, <<"chainCatch", j>>)]

\* process(svgText, settings), up to its return: abort(), then the new job is
\* chained on this._currentJob.  catch() on a settled promise queues its
\* reaction at once; on a pending one, the reaction is queued when it settles.
\* awaiter is the cycle that awaits the returned promise (0: none).
Process(w, text, fp, awaiter) ==
  LET w1 == Abort(w)
      j  == Len(w1.jobs) + 1
  IN  [w1 EXCEPT !.jobs = Append(@, NewJob(text, fp, awaiter)),
                 !.mq = IF CurrentJobSettled(w1) THEN Append(@, <<"chainCatch", j>>)
                        ELSE @]

\* A variant of process without .catch(() => {}): the rejection of the job
\* before passes to the promise of then(), whose function is not called.
ChainNoCatch(w, j) ==
  IF j > 1 /\ w.jobs[j - 1].promise.state = "rejected"
  THEN [w EXCEPT !.jobs[j].fn = w.jobs[j - 1].promise,
                 !.mq = Append(@, <<"jobSettle", j>>)]
  ELSE [w EXCEPT !.mq = Append(@, <<"fnStart", j>>)]

\* The reaction of .catch(() => {}): the promise it returned is fulfilled,
\* which queues the reaction of .then(async () => ...).
ChainCatch(w, j) == [w EXCEPT !.mq = Append(@, <<"fnStart", j>>)]

\* The async function of process starts: requestResponse, then await.  The
\* promise it returns resolves the promise of then(), which queues the job
\* that subscribes to it.
FnStart(w, j) ==
  LET w1 == RequestResponse(w, "process", <<"job", j>>) IN
  [w1 EXCEPT !.jobs[j].state = "started", !.jobs[j].req = w1.chan.requestId,
             !.mq = Append(@, <<"nop", 0>>)]

\* What destructuring the awaited response gives: the promise's rejection, a
\* TypeError when the response is undefined, and else the response.
Destructured(promise) ==
  IF promise.state = "resolved" /\ promise.value = Undefined
  THEN Rejected([name |-> "TypeError", message |-> "undefined"])
  ELSE promise

\* The async function of process resumes after await requestResponse: it
\* throws, or returns new SvgFile(data, ...).  That settles its promise and
\* queues the reaction that settles the promise process returned.
FnResume(w, j) ==
  LET job == w.jobs[j]
      out == Destructured(w.chan.reqs[job.req].promise)
      n   == w.ctl.nfiles + 1
  IN  IF out.state = "resolved"
      THEN [w EXCEPT !.jobs[j].fn = out,
                     !.jobs[j].file = SvgFile(n, Optimized(job.text, job.fp)),
                     !.ctl.nfiles = n,
                     !.mq = Append(@, <<"jobSettle", j>>)]
      ELSE [w EXCEPT !.jobs[j].fn = out, !.mq = Append(@, <<"jobSettle", j>>)]

\* A variant in which the promise process returned settles without the
\* caller's await being resumed.
JobSettleLosesAwaiter(w, j) ==
  LET job == w.jobs[j]
      r2  == IF j < Len(w.jobs) THEN <<(<<"chainCatch", j + 1>>)>> ELSE <<>>
  IN  [w EXCEPT !.jobs[j].state = "settled", !.jobs[j].promise = job.fn,
                !.mq = @ \o r2]

\* The promise process returned settles.  Its reactions are queued in the
\* order they subscribed: the caller's await, then the catch() of the next
\* call of process.
JobSettle(w, j) ==
  LET job == w.jobs[j]
      r1  == IF job.awaiter # 0 THEN <<(<<"cycleResume", job.awaiter>>)>> ELSE <<>>
      r2  == IF j < Len(w.jobs) THEN <<(<<"chainCatch", j + 1>>)>> ELSE <<>>
  IN  [w EXCEPT !.jobs[j].state = "settled", !.jobs[j].promise = job.fn,
                !.mq = @ \o r1 \o r2]

\* wrapOriginal(svgText), up to its await.
WrapOriginal(w, l) == RequestResponse(w, "wrapOriginal", <<"wrap", l>>)

(***************************************************************************)
(* ResultsCache                                                            *)
(***************************************************************************)
\* new ResultsCache(10), in MainController's constructor
CacheSize == 10

\* A variant of purge that leaves the cursor where it is.
PurgeKeepsCursor(cache) == [cache EXCEPT !.fingerprints = <<>>, !.items = <<>>]

\* A variant of purge that drops nothing.
PurgeNothing(cache) == cache

\* purge()
Purge(cache) == [cache EXCEPT !.fingerprints = <<>>, !.items = <<>>, !.index = 0]

\* constructor(size)
NewCache(size) ==
  Purge([size |-> size, fingerprints |-> <<>>, items |-> <<>>, index |-> 0])

\* this._items[i] for a JavaScript index i; NoFile stands for undefined.
ItemAt(cache, i) ==
  IF i >= 0 /\ i < Len(cache.items) THEN cache.items[i + 1] ELSE NoFile

\* A variant of the lookup that searches from the end, as lastIndexOf does.
LastIndexOf(fps, fp) ==
  IF \E i \in 1 .. Len(fps) : fps[i] = fp
  THEN Max({i \in 1 .. Len(fps) : fps[i] = fp}) - 1
  ELSE -1

\* this._fingerprints.indexOf(fingerprint)
IndexOf(fps, fp) ==
  IF \E i \in 1 .. Len(fps) : fps[i] = fp
  THEN Min({i \in 1 .. Len(fps) : fps[i] = fp}) - 1
  ELSE -1

\* array[i] = x, for i at most the array's length
SetAt(arr, i, x) ==
  IF i < Len(arr) THEN [arr EXCEPT ![i + 1] = x] ELSE Append(arr, x)

\* A variant of match that finds nothing.
MatchNothing(cache, fp) == NoFile

\* match(fingerprint)
Match(cache, fp) == ItemAt(cache, IndexOf(cache.fingerprints, fp))

\* A variant of add that finds no old item to release.
AddReleasedNothing(cache) == NoFile

\* add(fingerprint, svgFile): oldItem, on which release() is called when it
\* is not undefined
AddReleased(cache) == ItemAt(cache, cache.index)

\* A variant of add that advances the cursor without wrapping it.
AddNoWrap(cache, fp, file) ==
  [cache EXCEPT !.fingerprints = SetAt(@, cache.index, fp),
                !.items = SetAt(@, cache.index, file),
                !.index = cache.index + 1]

\* add(fingerprint, svgFile): the fields after the call
Add(cache, fp, file) ==
  [cache EXCEPT !.fingerprints = SetAt(@, cache.index, fp),
                !.items = SetAt(@, cache.index, file),
                !.index = (cache.index + 1) % cache.size]

(***************************************************************************)
(* MainController                                                          *)
(***************************************************************************)
NewController(settings) ==
  [inputItem |-> NoFile, inputFilename |-> "none", cache |-> NewCache(CacheSize),
   latestCompressJobId |-> 0, activated |-> FALSE,
   settings |-> settings,      \* what this._settingsUi.getSettings() returns
   displayed |-> NoFile,       \* the file last given to this._outputUi.update
   errors |-> <<>>,            \* the error toasts shown, in order
   spinner |-> "hidden",       \* the download button's spinner
   released |-> <<>>,          \* the files release() was called on, in order
   urls |-> {},                \* the files whose _url is set (by number)
   revoked |-> <<>>,           \* the files given to URL.revokeObjectURL, in order
   compressedSize |-> {},      \* <<n, id>>: file n's _compressedSize is the
                               \* promise made from gzip request id
   psettled |-> {},            \* the gzip requests whose _compressedSize
                               \* promise has settled
   subs |-> <<>>,              \* <<id, u>>: the promise size() returned to
                               \* update u waits for that of request id
   updates |-> <<>>,           \* the calls of _updateForFile that await sizes
   shown |-> 0,                \* the call whose sizes this._resultsUi shows
   matches |-> 0,              \* calls of this._cache.match so far
   nfiles |-> 0]               \* SvgFile objects constructed so far

\* get url(): the first read creates the object URL and keeps it in _url.
Url(w, file) == [w EXCEPT !.ctl.urls = @ \cup {file.n}]

\* release(): nothing without a url; else the url is revoked, and _url keeps it.
ReleaseFile(w, file) ==
  IF file.n \notin w.ctl.urls THEN w ELSE [w EXCEPT !.ctl.revoked = Append(@, file.n)]

\* A variant of size() that asks gzip for the size at every call.
SizeNoMemo(w, file, compress) ==
  IF ~compress THEN w
  ELSE LET w1 == RequestResponse(w, NoAction, NoOwner)
       IN  [w1 EXCEPT !.ctl.compressedSize = @ \cup {<<file.n, w1.chan.requestId>>}]

\* size({compress}), w.chan being the channel of gzip: text.length without
\* compress; else the promise kept in _compressedSize, made by gzip.compress
\* the first time.
Size(w, file, compress) ==
  IF ~compress THEN w
  ELSE IF \E p \in w.ctl.compressedSize : p[1] = file.n THEN w
  ELSE LET w1 == RequestResponse(w, NoAction, <<"gzipThen", w.chan.requestId + 1>>)
       IN  [w1 EXCEPT !.ctl.compressedSize = @ \cup {<<file.n, w1.chan.requestId>>}]

\* The gzip request file n's _compressedSize was made from (0: null).
CompressedSizeOf(w, n) ==
  IF \E p \in w.ctl.compressedSize : p[1] = n
  THEN (CHOOSE p \in w.ctl.compressedSize : p[1] = n)[2]
  ELSE 0

\* The reaction .then((response) => response.byteLength) of gzip request id:
\* the promise kept in _compressedSize settles, which queues the reactions
\* subscribed to it, in the order they subscribed.
GzipThen(w, id) ==
  LET woken == SelectSeq(w.ctl.subs, LAMBDA p : p[1] = id) IN
  [w EXCEPT !.ctl.psettled = @ \cup {id},
            !.ctl.subs = SelectSeq(@, LAMBDA p : p[1] # id),
            !.mq = @ \o [i \in 1 .. Len(woken) |-> <<"sizeSettle", woken[i][2]>>]]

\* _handleError(error)
HandleError(w, prefix, error) ==
  [w EXCEPT !.ctl.errors = Append(@, [prefix |-> prefix, name |-> error.name,
                                      message |-> error.value])]

\* _updateForFile(svgFile, ...), up to its first await; setDownload reads
\* the file's url.
UpdateForFile(w, file) == [Url(w, file) EXCEPT !.ctl.displayed = file]

\* The record of a call of _compressSvg: its argument, where it stands, the
\* job it awaits and the file it ended with; before tells where the call
\* before it stood when this one was made.
NewCycle(w, settings) ==
  [settings |-> settings, pc |-> "awaitAbort", job |-> 0, file |-> NoFile,
   before |-> IF w.cycles = <<>> THEN "none" ELSE w.cycles[Len(w.cycles)].pc]

\* A variant of _compressSvg without the call of svgo.abort().
CompressSvgNoAbort(w, settings) ==
  LET c == Len(w.cycles) + 1 IN
  [w EXCEPT !.ctl.latestCompressJobId = c,
            !.cycles = Append(@, NewCycle(w, settings)),
            !.mq = Append(@, <<"cycleStart", c>>)]

\* _compressSvg(settings), up to await svgo.abort().  Math.random() gives a
\* value no earlier call got: the calls are numbered.
CompressSvg(w, settings) ==
  LET c  == Len(w.cycles) + 1
      w1 == [w EXCEPT !.ctl.latestCompressJobId = c,
                      !.cycles = Append(@, NewCycle(w, settings))]
      w2 == Abort(w1)
  IN  [w2 EXCEPT !.mq = Append(@, <<"cycleStart", c>>)]

\* The text a pass is run on: the cleanup transforms the settings ask for.
PassText(settings, text) ==
  LET text1 == IF settings.remUnusedTextCode THEN RemoveUnusedTextCode(text) ELSE text
  IN  IF settings.remUnusualAttributes THEN RemoveUnusualAttributes(text1) ELSE text1

\* A variant of the test that never asks for a second pass.
TwoPassesNever(settings) == FALSE

\* The settings ask for a second pass.
TwoPasses(settings) == settings.remUnusedTextCode \/ settings.remUnusualAttributes

\* A variant of _compressSvg that looks the fingerprint up in the cache
\* before it tests settings.original.
CycleStartLooksUpFirst(w, c) ==
  LET settings   == w.cycles[c].settings
      cacheMatch == Match(w.ctl.cache, Fingerprint(settings))
      w0         == [w EXCEPT !.ctl.matches = @ + 1]
  IN  IF c # w.ctl.latestCompressJobId
      THEN [w EXCEPT !.cycles[c].pc = "superseded"]
      ELSE IF cacheMatch # NoFile
      THEN [UpdateForFile(w0, cacheMatch) EXCEPT
              !.cycles[c].pc = "hit", !.cycles[c].file = cacheMatch]
      ELSE IF settings.original
      THEN [UpdateForFile(w0, w.ctl.inputItem) EXCEPT
              !.cycles[c].pc = "original", !.cycles[c].file = w.ctl.inputItem]
      ELSE LET w1 == [w0 EXCEPT !.ctl.spinner = "working"]
               w2 == Process(w1, PassText(settings, w1.ctl.inputItem.text),
                             Fingerprint(settings), c)
           IN  [w2 EXCEPT !.cycles[c].pc = "pass1", !.cycles[c].job = Len(w2.jobs)]

\* _compressSvg after await svgo.abort(), up to await svgo.process(...).
CycleStart(w, c) ==
  LET settings   == w.cycles[c].settings
      cacheMatch == Match(w.ctl.cache, Fingerprint(settings))
      w0         == [w EXCEPT !.ctl.matches = @ + 1]
  IN  IF c # w.ctl.latestCompressJobId
      THEN [w EXCEPT !.cycles[c].pc = "superseded"]
      ELSE IF settings.original
      THEN [UpdateForFile(w, w.ctl.inputItem) EXCEPT
              !.cycles[c].pc = "original", !.cycles[c].file = w.ctl.inputItem]
      ELSE IF cacheMatch # NoFile
      THEN [UpdateForFile(w0, cacheMatch) EXCEPT
              !.cycles[c].pc = "hit", !.cycles[c].file = cacheMatch]
      ELSE LET w1 == [w0 EXCEPT !.ctl.spinner = "working"]
               w2 == Process(w1, PassText(settings, w1.ctl.inputItem.text),
                             Fingerprint(settings), c)
           IN  [w2 EXCEPT !.cycles[c].pc = "pass1", !.cycles[c].job = Len(w2.jobs)]

\* The file whose size a call of _updateForFile awaits: compareToFile's
\* first, then svgFile's.
AwaitedFile(upd) == IF upd.pc = "compare" THEN upd.compare ELSE upd.file

\* 'await file.size({ compress })' in call u of _updateForFile.  Without
\* compress the promise size() returns is fulfilled already, and the await
\* queues the continuation.  With compress the async function returns the
\* promise kept in _compressedSize: a job is queued that subscribes the
\* returned promise to it.
AwaitSize(w, u) ==
  LET upd == w.ctl.updates[u]
      w1  == Size(w, AwaitedFile(upd), upd.compress)
  IN  [w1 EXCEPT !.mq = Append(@, IF upd.compress THEN <<"thenable", u>>
                                  ELSE <<"updateResume", u>>)]

\* The job that subscribes the promise size() returned to the promise kept
\* in _compressedSize: the reaction is queued at once when that is settled.
Thenable(w, u) ==
  LET id == CompressedSizeOf(w, AwaitedFile(w.ctl.updates[u]).n) IN
  IF id \in w.ctl.psettled
  THEN [w EXCEPT !.mq = Append(@, <<"sizeSettle", u>>)]
  ELSE [w EXCEPT !.ctl.subs = Append(@, <<id, u>>)]

\* The promise size() returned settles: the continuation of the await is queued.
SizeSettle(w, u) == [w EXCEPT !.mq = Append(@, <<"updateResume", u>>)]

\* _updateForFile resumes after an await of a size: the await throws when
\* the promise was rejected; after compareToFile's size comes svgFile's;
\* after that this._resultsUi.update shows the two sizes.
UpdateResume(w, u) ==
  LET upd == w.ctl.updates[u]
      id  == CompressedSizeOf(w, AwaitedFile(upd).n)
      out == IF upd.compress THEN Destructured(w.chan.reqs[id].promise)
             ELSE Resolved("result")
  IN  IF out.state = "rejected" THEN [w EXCEPT !.ctl.updates[u].pc = "failed"]
      ELSE IF upd.pc = "compare"
      THEN AwaitSize([w EXCEPT !.ctl.updates[u].pc = "size"], u)
      ELSE [w EXCEPT !.ctl.updates[u].pc = "shown", !.ctl.shown = u]

\* _updateForFile(svgFile, { compareToFile, compress }), up to its first
\* await of a size; NoFile stands for a compareToFile left out.
UpdateResults(w, file, compareToFile, compress) ==
  LET u  == Len(w.ctl.updates) + 1
      w1 == UpdateForFile(w, file)
      w2 == [w1 EXCEPT !.ctl.updates =
               Append(@, [file |-> file, compare |-> compareToFile,
                          compress |-> compress,
                          pc |-> IF compareToFile # NoFile THEN "compare" ELSE "size"])]
  IN  AwaitSize(w2, u)

\* this._cache.add(fingerprint, svgFile), with the release it makes
CacheAdd(w, fp, file) ==
  LET oldItem == AddReleased(w.ctl.cache)
      w1      == IF oldItem # NoFile THEN ReleaseFile(w, oldItem) ELSE w
  IN  [w1 EXCEPT !.ctl.released = IF oldItem # NoFile THEN Append(@, oldItem) ELSE @,
                 !.ctl.cache = Add(@, fp, file)]

\* A variant of the end of a cycle that caches the file and does not display it.
FinishCachesOnly(w, c, file) ==
  LET w1 == CacheAdd(w, Fingerprint(w.cycles[c].settings), file) IN
  [w1 EXCEPT !.ctl.spinner = "done",
             !.cycles[c].pc = "done", !.cycles[c].file = file]

\* A variant of the end of a cycle that displays the file and does not cache it.
FinishDisplaysOnly(w, c, file) ==
  [UpdateForFile(w, file) EXCEPT !.ctl.spinner = "done",
                                 !.cycles[c].pc = "done", !.cycles[c].file = file]

\* The end of a successful cycle: the display, then the cache.
Finish(w, c, file) ==
  LET w1 == CacheAdd(UpdateForFile(w, file), Fingerprint(w.cycles[c].settings), file) IN
  [w1 EXCEPT !.ctl.spinner = "done",
             !.cycles[c].pc = "done", !.cycles[c].file = file]

\* A variant of _compressSvg that shows and caches the first pass's file
\* before it runs the second pass.
CycleResumeKeepsFirstPass(w, c) ==
  LET cyc == w.cycles[c]
      job == w.jobs[cyc.job]
  IN  IF job.promise.state = "rejected"
      THEN IF job.promise.name = "AbortError"
           THEN [w EXCEPT !.ctl.spinner = "done", !.cycles[c].pc = "aborted"]
           ELSE [HandleError(w, "Minifying error: ", job.promise) EXCEPT
                   !.ctl.spinner = "done", !.cycles[c].pc = "error"]
      ELSE IF cyc.pc = "pass1" /\ TwoPasses(cyc.settings)
      THEN LET w0 == Finish(w, c, job.file)
               w1 == Process(w0, PassText(cyc.settings, job.file.text),
                             Fingerprint(cyc.settings), c)
           IN  [w1 EXCEPT !.ctl.spinner = "working",
                          !.cycles[c].pc = "pass2", !.cycles[c].job = Len(w1.jobs)]
      ELSE Finish(w, c, job.file)

\* _compressSvg after an await svgo.process(...): the second pass, the end
\* of the cycle, or the catch block; finally, the spinner.
CycleResume(w, c) ==
  LET cyc == w.cycles[c]
      job == w.jobs[cyc.job]
  IN  IF job.promise.state = "rejected"
      THEN IF job.promise.name = "AbortError"
           THEN [w EXCEPT !.ctl.spinner = "done", !.cycles[c].pc = "aborted"]
           ELSE [HandleError(w, "Minifying error: ", job.promise) EXCEPT
                   !.ctl.spinner = "done", !.cycles[c].pc = "error"]
      ELSE IF cyc.pc = "pass1" /\ TwoPasses(cyc.settings)
      THEN LET w1 == Process(w, PassText(cyc.settings, job.file.text),
                             Fingerprint(cyc.settings), c)
           IN  [w1 EXCEPT !.cycles[c].pc = "pass2", !.cycles[c].job = Len(w1.jobs)]
      ELSE Finish(w, c, job.file)

\* _onInputChange({data, filename}), up to await svgo.wrapOriginal(data).
\* The record of the call: its arguments, the settings it read, its request,
\* where it stands and, once it has called _compressSvg, which call that was.
OnInputChange(w, data) ==
  LET l  == Len(w.loads) + 1
      w1 == WrapOriginal(w, l)
  IN  [w1 EXCEPT !.loads = Append(@, [data |-> data, settings |-> w.ctl.settings,
                                      req |-> w1.chan.requestId,
                                      wrapped |-> PendingPromise, pc |-> "wrap",
                                      cycle |-> 0])]

\* wrapOriginal resumes after await requestResponse: it throws, or returns
\* a new SvgFile; that queues the reaction of the caller's await:
\* _onInputChange's, or a bare client's (pc "raw"), which does nothing.
WrapResume(w, l) ==
  [w EXCEPT !.loads[l].wrapped = Destructured(w.chan.reqs[w.loads[l].req].promise),
            !.mq = Append(@, IF w.loads[l].pc = "raw" THEN <<"nop", 0>>
                             ELSE <<"load", l>>)]

\* A variant of _onInputChange that purges the cache before it awaits
\* wrapOriginal's promise, so also when the load fails.
LoadResumePurgesFirst(w, l) ==
  LET ld == w.loads[l]
      n  == w.ctl.nfiles + 1
      w0 == [w EXCEPT !.ctl.cache = Purge(@)]
  IN  IF ld.wrapped.state = "rejected"
      THEN [HandleError(w0, "Load failed: ", ld.wrapped) EXCEPT !.loads[l].pc = "failed"]
      ELSE LET w1 == [w0 EXCEPT !.ctl.inputItem = SvgFile(n, OriginalText(ld.data)),
                                !.ctl.nfiles = n,
                                !.ctl.inputFilename = ld.data,
                                !.loads[l].pc = "loaded",
                                !.loads[l].cycle = Len(w.cycles) + 1]
               w2 == CompressSvg(w1, ld.settings)
           IN  [w2 EXCEPT !.ctl.activated = TRUE]

\* A variant of _onInputChange that keeps the cache across a load.
LoadResumeKeepsCache(w, l) ==
  LET ld == w.loads[l]
      n  == w.ctl.nfiles + 1
  IN  IF ld.wrapped.state = "rejected"
      THEN [HandleError(w, "Load failed: ", ld.wrapped) EXCEPT !.loads[l].pc = "failed"]
      ELSE LET w1 == [w EXCEPT !.ctl.inputItem = SvgFile(n, OriginalText(ld.data)),
                               !.ctl.nfiles = n,
                               !.ctl.inputFilename = ld.data,
                               !.loads[l].pc = "loaded",
                               !.loads[l].cycle = Len(w.cycles) + 1]
               w2 == CompressSvg(w1, ld.settings)
           IN  [w2 EXCEPT !.ctl.activated = TRUE]

\* _onInputChange after await svgo.wrapOriginal(data)
LoadResume(w, l) ==
  LET ld == w.loads[l]
      n  == w.ctl.nfiles + 1
  IN  IF ld.wrapped.state = "rejected"
      THEN [HandleError(w, "Load failed: ", ld.wrapped) EXCEPT !.loads[l].pc = "failed"]
      ELSE LET w1 == [w EXCEPT !.ctl.inputItem = SvgFile(n, OriginalText(ld.data)),
                               !.ctl.nfiles = n,
                               !.ctl.inputFilename = ld.data,
                               !.ctl.cache = Purge(@),
                               !.loads[l].pc = "loaded",
                               !.loads[l].cycle = Len(w.cycles) + 1]
               w2 == CompressSvg(w1, ld.settings)
           IN  [w2 EXCEPT !.ctl.activated = TRUE]

\* _onSettingsChange(), the settings panel now holding settings
OnSettingsChange(w, settings) ==
  CompressSvg([w EXCEPT !.ctl.settings = settings], settings)

(***************************************************************************)
(* The promise reactions.                                                  *)
(***************************************************************************)
Run(w, t) ==
  CASE t[1] = "job" -> FnResume(w, t[2])
    [] t[1] = "jobSettle" -> JobSettle(w, t[2])
    [] t[1] = "chainCatch" -> ChainCatch(w, t[2])
    [] t[1] = "fnStart" -> FnStart(w, t[2])
    [] t[1] = "wrap" -> WrapResume(w, t[2])
    [] t[1] = "load" -> LoadResume(w, t[2])
    [] t[1] = "cycleStart" -> CycleStart(w, t[2])
    [] t[1] = "cycleResume" -> CycleResume(w, t[2])
    [] t[1] = "gzipThen" -> GzipThen(w, t[2])
    [] t[1] = "thenable" -> Thenable(w, t[2])
    [] t[1] = "sizeSettle" -> SizeSettle(w, t[2])
    [] t[1] = "updateResume" -> UpdateResume(w, t[2])
    [] t[1] = "nop" -> w

(***************************************************************************)
(* The messages a worker can send: with or without an id (0 stands for a   *)
(* missing id), with or without a result, with or without an error text.   *)
(***************************************************************************)
Messages(w) ==
  [id : 0 .. (w.chan.requestId + 1), result : Results, error : ErrorTexts]

\* The worker's protocol: {id, result} or {id, error: string}, for a request
\* it was sent and has not answered.  A terminated worker delivers nothing.
Replies(w) ==
  [id : w.chan.pending, result : {"result"}, error : {Undefined}]
  \cup [id : w.chan.pending, result : {Undefined}, error : ErrorTexts \ {Undefined}]

NoMsg == [id |-> 0, result |-> Undefined, error |-> Undefined]
Op(name, n, msg) == [op |-> name, n |-> n, msg |-> msg]

Init ==
  /\ chan = NewMessenger
  /\ mq = <<>>
  /\ jobs = <<>>
  /\ ctl = NewController(DefaultSettings)
  /\ cycles = <<>>
  /\ loads = <<>>
  /\ log = <<>>
  /\ sw = NewRegistration
  /\ last = Op("init", 0, NoMsg)

\* A promise reaction runs: the head of the microtask queue.
Microtask ==
  /\ mq # <<>>
  /\ Commit(Run([World EXCEPT !.mq = Tail(mq)], Head(mq)))
  /\ last' = Op(Head(mq)[1], Head(mq)[2], NoMsg)

(***************************************************************************)
(* The bare channel, driven by an arbitrary client.                        *)
(***************************************************************************)
\* last.n tells whether the send had to start a worker.
ChanSend ==
  /\ chan.requestId < MaxSend
  /\ Commit(RequestResponse(World, NoAction, NoOwner))
  /\ last' = Op("send", IF chan.worker = 0 THEN 1 ELSE 0, NoMsg)

ChanAbort ==
  /\ Commit(Abort(World))
  /\ last' = Op("abort", 0, NoMsg)

ChanRelease ==
  /\ Commit(Release(World))
  /\ last' = Op("release", 0, NoMsg)

\* A message event from a worker created so far, terminated or not.
ChanMessage ==
  /\ mq = <<>>
  /\ chan.nworkers > 0
  /\ \E msg \in Messages(World) :
       /\ Commit(OnMessage(World, msg))
       /\ last' = Op("message", 0, msg)

NextChannel == ChanSend \/ ChanAbort \/ ChanRelease \/ ChanMessage

SpecChannel == Init /\ [][NextChannel]_vars

(***************************************************************************)
(* The bare job runner, driven by an arbitrary client that calls process,  *)
(* wrapOriginal and abort at any point, also between two promise           *)
(* reactions; worker messages are tasks.  Each call of process has         *)
(* settings of its own: their fingerprint is the number of the call.       *)
(***************************************************************************)
RunnerSubmit ==
  /\ Len(jobs) + Len(loads) < MaxSubmits
  /\ Commit(Process(World, OriginalText("d1"), ToString(Len(jobs) + 1), 0))
  /\ last' = Op("process", 0, NoMsg)

RunnerWrap ==
  /\ Len(jobs) + Len(loads) < MaxSubmits
  /\ LET l  == Len(loads) + 1
         w1 == WrapOriginal(World, l)
     IN  Commit([w1 EXCEPT !.loads = Append(@, [data |-> "d1", settings |-> ctl.settings,
                                                req |-> w1.chan.requestId,
                                                wrapped |-> PendingPromise,
                                                pc |-> "raw", cycle |-> 0])])
  /\ last' = Op("wrapOriginal", 0, NoMsg)

RunnerAbort ==
  /\ Commit(Abort(World))
  /\ last' = Op("abort", 0, NoMsg)

\* A reply of the worker to a request it was sent.
WorkerReply ==
  /\ mq = <<>>
  /\ \E msg \in Replies(World) :
       /\ Commit(OnMessage(World, msg))
       /\ last' = Op("message", 0, msg)

NextRunner == RunnerSubmit \/ RunnerWrap \/ RunnerAbort \/ WorkerReply \/ Microtask

SpecRunner == Init /\ [][NextRunner]_vars

(***************************************************************************)
(* The page: input loads, settings changes and worker replies are tasks.   *)
(* The settings panel is shown by MainUi.activate, after the first load.   *)
(***************************************************************************)
\* The user events so far: every load, and every cycle no load started.
Events ==
  Len(loads) + Len(cycles) - Cardinality({l \in 1 .. Len(loads) : loads[l].pc = "loaded"})

\* The documents the next load can be of: up to renaming, the first is "d1".
NextInputs == IF loads = <<>> THEN {"d1"} ELSE Inputs

InputChange ==
  /\ mq = <<>>
  /\ Events < MaxEvents
  /\ \E d \in NextInputs : Commit(OnInputChange(World, d))
  /\ last' = Op("inputChange", 0, NoMsg)

SettingsChange ==
  /\ mq = <<>>
  /\ ctl.activated
  /\ Events < MaxEvents
  /\ \E s \in Settings : Commit(OnSettingsChange(World, s))
  /\ last' = Op("settingsChange", 0, NoMsg)

Next == InputChange \/ SettingsChange \/ WorkerReply \/ Microtask

Spec == Init /\ [][Next]_vars

\* The page with a cache of SmallCacheSize slots in place of 10, so that
\* the adds of a few cycles wrap around and evict.
InitEvict ==
  /\ chan = NewMessenger
  /\ mq = <<>>
  /\ jobs = <<>>
  /\ ctl = [NewController(DefaultSettings) EXCEPT !.cache = NewCache(SmallCacheSize)]
  /\ cycles = <<>>
  /\ loads = <<>>
  /\ log = <<>>
  /\ sw = NewRegistration
  /\ last = Op("init", 0, NoMsg)

SpecEvict == InitEvict /\ [][Next]_vars

\* The page with a fair event loop and a worker that answers: a queued
\* promise reaction runs, and a request left pending gets a reply (a result
\* or an error).  The user's events are under no fairness.
SpecLive == Spec /\ WF_vars(Microtask) /\ WF_vars(WorkerReply)

(***************************************************************************)
(* A bare ResultsCache of any size from 1 to MaxCacheSize, kept in         *)
(* ctl.cache and driven by an arbitrary client that calls add (each time   *)
(* with a new SvgFile), match and purge.  log records the calls of add and *)
(* purge.                                                                  *)
(***************************************************************************)
\* The fingerprints the client uses: one more than the largest size.
Keys == {ToString(k) : k \in 0 .. MaxCacheSize}

InitCache ==
  /\ chan = NewMessenger
  /\ mq = <<>>
  /\ jobs = <<>>
  /\ \E size \in 1 .. MaxCacheSize :
       ctl = [NewController(DefaultSettings) EXCEPT !.cache = NewCache(size)]
  /\ cycles = <<>>
  /\ loads = <<>>
  /\ log = <<>>
  /\ sw = NewRegistration
  /\ last = Op("init", 0, NoMsg)

ClientAdd ==
  /\ Len(log) < MaxCacheOps
  /\ \E fp \in Keys :
       LET n    == ctl.nfiles + 1
           file == SvgFile(n, Optimized(OriginalText("d1"), fp))
           w1   == CacheAdd([World EXCEPT !.ctl.nfiles = n], fp, file)
       IN  Commit([w1 EXCEPT !.log = Append(@, [op |-> "add", fp |-> fp, file |-> file])])
  /\ last' = Op("add", 0, NoMsg)

\* match reads the two arrays and writes nothing; what it returns is Match.
ClientMatch ==
  /\ Commit(World)
  /\ last' = Op("match", 0, NoMsg)

ClientPurge ==
  /\ Len(log) < MaxCacheOps
  /\ Commit([World EXCEPT !.ctl.cache = Purge(@),
                          !.log = Append(@, [op |-> "purge", fp |-> NoFingerprint,
                                             file |-> NoFile])])
  /\ last' = Op("purge", 0, NoMsg)

NextCache == ClientAdd \/ ClientMatch \/ ClientPurge

SpecCache == InitCache /\ [][NextCache]_vars

(***************************************************************************)
(* A bare Settings panel, its state kept in ctl.settings: the user checks  *)
(* and unchecks the checkboxes, moves the range and presses reset.         *)
(* last.n tells which input the event was on: its place among the global   *)
(* inputs followed by the plugin inputs.                                   *)
(***************************************************************************)
PanelInputs == GlobalInputs \o PluginInputs

\* An input event on a checkbox: the browser has flipped it.
PanelToggle ==
  \E i \in 1 .. Len(PanelInputs) :
    /\ InputType(PanelInputs[i]) = "checkbox"
    /\ Commit([World EXCEPT !.ctl.settings[PanelInputs[i]] = ~@])
    /\ last' = Op("toggle", i, NoMsg)

\* An input event on a range: the browser has set its value.
PanelRange ==
  \E i \in 1 .. Len(PanelInputs), v \in RangeValues :
    /\ InputType(PanelInputs[i]) = "range"
    /\ v # ctl.settings[PanelInputs[i]]
    /\ Commit([World EXCEPT !.ctl.settings[PanelInputs[i]] = v])
    /\ last' = Op("range", i, NoMsg)

\* _onReset: every input goes back to its initial attribute.
PanelReset ==
  /\ Commit([World EXCEPT !.ctl.settings = DefaultSettings])
  /\ last' = Op("reset", 0, NoMsg)

NextSettings == PanelToggle \/ PanelRange \/ PanelReset

SpecSettings == Init /\ [][NextSettings]_vars

(***************************************************************************)
(* Bare SvgFile objects, driven by an arbitrary client that constructs     *)
(* them and calls size() on them; chan is the channel of gzip, whose       *)
(* worker answers with a result or an error.  log records the calls of     *)
(* size and the request each one made gzip send (0: none).                 *)
(***************************************************************************)
SizeNewFile ==
  /\ ctl.nfiles < MaxFiles
  /\ Commit([World EXCEPT !.ctl.nfiles = @ + 1])
  /\ last' = Op("newFile", ctl.nfiles + 1, NoMsg)

SizeCall ==
  /\ Len(log) < MaxSizeCalls
  /\ \E n \in 1 .. ctl.nfiles, compress \in BOOLEAN :
       LET w1 == Size(World, SvgFile(n, OriginalText("d1")), compress)
           id == IF w1.chan.requestId > chan.requestId THEN w1.chan.requestId ELSE 0
       IN  /\ Commit([w1 EXCEPT !.log = Append(@, [file |-> n, compress |-> compress,
                                                   req |-> id])])
           /\ last' = Op("size", n, NoMsg)

NextSize == SizeNewFile \/ SizeCall \/ WorkerReply \/ Microtask

SpecSize == Init /\ [][NextSize]_vars

(***************************************************************************)
(* The results display, driven by a client that calls _updateForFile as    *)
(* _compressSvg does, one call in a task: for the input, without           *)
(* compareToFile, or for a result, compared to the input, with either      *)
(* value of compress.  chan is the channel of gzip, whose worker answers   *)
(* a pending request with a result or an error.                            *)
(***************************************************************************)
InputFile == SvgFile(1, OriginalText("d1"))
ResultFile(n) == SvgFile(n, Optimized(OriginalText("d1"), ToString(n)))

ResultsShow ==
  /\ mq = <<>>
  /\ Len(ctl.updates) < MaxUpdates
  /\ \E n \in 1 .. MaxFiles, compress \in BOOLEAN :
       /\ Commit(IF n = 1 THEN UpdateResults(World, InputFile, NoFile, compress)
                 ELSE UpdateResults(World, ResultFile(n), InputFile, compress))
       /\ last' = Op("update", n, NoMsg)

NextResults == ResultsShow \/ WorkerReply \/ Microtask

SpecResults == Init /\ [][NextResults]_vars

(***************************************************************************)
(* The service worker.  The browser installs the versions that are         *)
(* deployed one after the other, and each runs the listeners of sw.js in   *)
(* its own global scope; they share the origin's caches and the key-value  *)
(* store.  A listener's async function is one action per await.  The       *)
(* browser's part: one worker installs at a time; a worker that has        *)
(* installed waits, taking the place of a worker that waited; a waiting    *)
(* worker is activated when no worker is activating and either it called   *)
(* skipWaiting, or there is no active worker, or the pages the active      *)
(* worker controls have gone, which may happen at any time.                *)
(***************************************************************************)
Workers == 1 .. Len(sw.workers)

\* install, up to 'await caches.open': idbKeyval.get('active-version') is
\* called and its promise kept.
InstallStart(w, version) ==
  [w EXCEPT !.sw.workers = Append(@, NewWorker(version))]

\* The transaction of idbKeyval.get reads the store: activeVersionPromise
\* is fulfilled with what is recorded then.
InstallGet(w, s) ==
  [w EXCEPT !.sw.workers[s].activeVersion = Resolved(w.sw.store)]

\* install resumes after 'await caches.open(staticCacheName)', which made
\* the cache, and calls cache.addAll.
InstallOpened(w, s) ==
  [w EXCEPT !.sw.caches = @ \cup {staticCacheName(w.sw.workers[s].version)},
            !.sw.workers[s].pc = "addAll"]

\* cache.addAll settles.  Rejected (a resource could not be fetched), the
\* promise given to waitUntil is rejected and the worker is discarded;
\* fulfilled, install goes on to 'await activeVersionPromise'.
InstallAdded(w, s, ok) ==
  IF ok THEN [w EXCEPT !.sw.workers[s].pc = "version"]
  ELSE [w EXCEPT !.sw.workers[s].pc = "failed", !.sw.workers[s].state = "redundant"]

\* install resumes after 'await activeVersionPromise': the test, and
\* self.skipWaiting().  The promise given to waitUntil is fulfilled: the
\* worker is installed and waits, and a worker that waited is discarded.
InstallEnd(w, s) ==
  LET me            == w.sw.workers[s]
      activeVersion == me.activeVersion.value
  IN  [w EXCEPT !.sw.workers =
         [t \in DOMAIN @ |->
            IF t = s
            THEN [me EXCEPT !.pc = "installed", !.state = "installed",
                            !.skipWaiting = SkipsWaiting(activeVersion, me.version)]
            ELSE IF @[t].state = "installed"
            THEN [@[t] EXCEPT !.state = "redundant"]
            ELSE @[t]]]

\* The browser activates the waiting worker: the active worker is replaced,
\* and activate is dispatched and runs up to 'await caches.keys()'.
ActivateStart(w, s) ==
  [w EXCEPT !.sw.workers =
     [t \in DOMAIN @ |->
        IF t = s THEN [@[t] EXCEPT !.state = "activating", !.pc = "keys"]
        ELSE IF @[t].state = "activated"
        THEN [@[t] EXCEPT !.state = "redundant"]
        ELSE @[t]]]

\* activate resumes after 'await caches.keys()': caches.delete is called
\* for the caches beginning "svgomg-" that are not in expectedCaches.
ActivateKeys(w, s) ==
  LET me == w.sw.workers[s] IN
  [w EXCEPT !.sw.workers[s].cacheNames =
              {cacheName \in w.sw.caches :
                 /\ cacheName.prefix = cachePrefix
                 /\ cacheName \notin expectedCaches(me.version)},
            !.sw.workers[s].pc = "delete"]

\* The deletions are done and activate resumes after 'await Promise.all':
\* idbKeyval.set('active-version', version) is called.
ActivateDeleted(w, s) ==
  [w EXCEPT !.sw.caches = @ \ w.sw.workers[s].cacheNames,
            !.sw.workers[s].pc = "set"]

\* The transaction of idbKeyval.set writes the store, and activate returns:
\* the worker is activated.
ActivateSet(w, s) ==
  [w EXCEPT !.sw.store = w.sw.workers[s].version,
            !.sw.workers[s].pc = "done",
            !.sw.workers[s].state = "activated"]

\* A new version of sw.js is deployed and the browser's update finds it.
SwDeploy ==
  /\ Len(sw.workers) < MaxWorkers
  /\ \A s \in Workers : sw.workers[s].state # "installing"
  /\ \E version \in Versions :
       /\ sw.workers # <<>> => version # sw.workers[Len(sw.workers)].version
       /\ Commit(InstallStart(World, version))
  /\ last' = Op("install", Len(sw.workers) + 1, NoMsg)

SwInstallGet ==
  \E s \in Workers :
    /\ sw.workers[s].state = "installing"
    /\ sw.workers[s].activeVersion.state = "pending"
    /\ Commit(InstallGet(World, s))
    /\ last' = Op("installGet", s, NoMsg)

SwInstallOpened ==
  \E s \in Workers :
    /\ sw.workers[s].state = "installing"
    /\ sw.workers[s].pc = "open"
    /\ Commit(InstallOpened(World, s))
    /\ last' = Op("installOpened", s, NoMsg)

SwInstallAdded ==
  \E s \in Workers, ok \in BOOLEAN :
    /\ sw.workers[s].state = "installing"
    /\ sw.workers[s].pc = "addAll"
    /\ Commit(InstallAdded(World, s, ok))
    /\ last' = Op("installAdded", s, NoMsg)

SwInstallEnd ==
  \E s \in Workers :
    /\ sw.workers[s].state = "installing"
    /\ sw.workers[s].pc = "version"
    /\ sw.workers[s].activeVersion.state = "resolved"
    /\ Commit(InstallEnd(World, s))
    /\ last' = Op("installEnd", s, NoMsg)

SwActivate ==
  \E s \in Workers :
    /\ sw.workers[s].state = "installed"
    /\ \A t \in Workers : sw.workers[t].state # "activating"
    /\ Commit(ActivateStart(World, s))
    /\ last' = Op("activate", s, NoMsg)

SwActivateKeys ==
  \E s \in Workers :
    /\ sw.workers[s].state = "activating"
    /\ sw.workers[s].pc = "keys"
    /\ Commit(ActivateKeys(World, s))
    /\ last' = Op("activateKeys", s, NoMsg)

SwActivateDeleted ==
  \E s \in Workers :
    /\ sw.workers[s].state = "activating"
    /\ sw.workers[s].pc = "delete"
    /\ Commit(ActivateDeleted(World, s))
    /\ last' = Op("activateDeleted", s, NoMsg)

SwActivateSet ==
  \E s \in Workers :
    /\ sw.workers[s].state = "activating"
    /\ sw.workers[s].pc = "set"
    /\ Commit(ActivateSet(World, s))
    /\ last' = Op("activateSet", s, NoMsg)

NextSw ==
  \/ SwDeploy \/ SwInstallGet \/ SwInstallOpened \/ SwInstallAdded \/ SwInstallEnd
  \/ SwActivate \/ SwActivateKeys \/ SwActivateDeleted \/ SwActivateSet

SpecSw == Init /\ [][NextSw]_vars

(***************************************************************************)
(* The claims.                                                             *)
(***************************************************************************)
AbortedPromise == Rejected(AbortError)

ProcessPending == {id \in chan.pending : chan.reqs[id].action = "process"}

\* C1: a compression cycle whose job token is no longer the latest when one of
\* its awaits completes changes neither the display nor the cache and shows no
\* error; only the cycle holding the latest token displays or caches its result.
C1_SupersededCycleDiscarded ==
  [][\A c \in 1 .. Len(cycles) :
       (cycles'[c].pc # cycles[c].pc /\ c # ctl'.latestCompressJobId)
         => /\ ctl'.displayed = ctl.displayed
            /\ ctl'.cache = ctl.cache
            /\ ctl'.errors = ctl.errors]_vars

\* A superseded cycle has just ended in its catch block, on the AbortError.
C1_Witness ==
  \E c \in 1 .. Len(cycles) :
    /\ c # ctl.latestCompressJobId
    /\ cycles[c].pc = "aborted"
    /\ last = Op("cycleResume", c, NoMsg)

\* C2: when the settings go from a cached fingerprint "a" to "b" (a miss, its
\* job in flight) and back to "a", the cycle for "a" is a cache hit and, for as
\* long as it is the latest, the display shows the artifact cached for "a" by
\* the earlier cycle; the "b" cycle produces no file, and nothing is cached or
\* displayed for "b".
C2_LateResultDiscarded ==
  \A c \in 2 .. Len(cycles) :
    LET a == cycles[c]
        b == cycles[c - 1]
    IN  (/\ a.pc = "hit"
         /\ c = ctl.latestCompressJobId
         /\ a.before \in {"pass1", "pass2"}
         /\ Fingerprint(b.settings) # Fingerprint(a.settings))
        => /\ ctl.displayed = a.file
           /\ \E a0 \in 1 .. c - 2 :
                /\ cycles[a0].pc = "done"
                /\ cycles[a0].file = ctl.displayed
                /\ Fingerprint(cycles[a0].settings) = Fingerprint(a.settings)
           /\ ctl.displayed.text.fp = Fingerprint(a.settings)
           /\ b.file = NoFile
           /\ \A i \in 1 .. Len(ctl.cache.items) :
                /\ ctl.cache.fingerprints[i] # Fingerprint(b.settings)
                /\ ctl.cache.items[i].text.fp # Fingerprint(b.settings)

\* The abort of the "b" job has been handled, after the hit on "a".
C2_Witness ==
  \E c \in 2 .. Len(cycles) :
    /\ cycles[c].pc = "hit"
    /\ c = ctl.latestCompressJobId
    /\ cycles[c].before = "pass1"
    /\ cycles[c - 1].pc = "aborted"
    /\ Fingerprint(cycles[c - 1].settings) # Fingerprint(cycles[c].settings)
    /\ last = Op("cycleResume", c - 1, NoMsg)
    /\ mq = <<>>

\* C3: the pending table never holds more than one "process" request.
C3_AtMostOneProcessPending == Cardinality(ProcessPending) <= 1

\* A process request is pending beside a wrapOriginal request, while a later
\* call of process waits in the chain.
C3_Witness ==
  /\ Cardinality(ProcessPending) = 1
  /\ chan.pending # ProcessPending
  /\ \E j \in 1 .. Len(jobs) : jobs[j].state = "chained"

\* C4: no error toast is ever shown for a rejection with AbortError.
C4_AbortErrorNeverShown ==
  \A i \in 1 .. Len(ctl.errors) : ctl.errors[i].name # "AbortError"

\* C5: abort() with entries pending rejects each of them with AbortError and
\* removes it, terminates the worker and installs a new one, to which the next
\* request is posted.
C5_AbortRejectsAllAndRestarts ==
  [][/\ (last'.op = "abort" /\ chan.pending # {})
          => /\ chan'.pending = {}
             /\ \A id \in chan.pending : chan'.reqs[id].promise = AbortedPromise
             /\ chan.worker # 0
             /\ chan.worker \in chan'.terminated
             /\ chan'.worker \notin {0, chan.worker} \cup chan'.terminated
             /\ chan'.nworkers = chan.nworkers + 1
     /\ (last.op = "abort" /\ chan.worker # 0 /\ last'.op = "send")
          => /\ chan'.reqs[chan'.requestId].gen = chan.worker
             /\ chan.worker \notin chan'.terminated
             /\ chan'.worker = chan.worker]_vars

\* abort() has just rejected two pending entries and replaced the worker.
C5_Witness ==
  /\ last.op = "abort"
  /\ chan.pending = {}
  /\ chan.terminated # {}
  /\ Cardinality({id \in 1 .. chan.requestId :
                    chan.reqs[id].promise = AbortedPromise}) >= 2

\* C6: abort() with nothing pending changes nothing: no worker is terminated
\* or started, no promise settles, the id counter stays.
C6_AbortOnIdleIsNoOp ==
  [][(last'.op = "abort" /\ chan.pending = {}) => (chan' = chan /\ mq' = mq)]_vars

\* abort() was called on a channel whose only worker is running and whose
\* requests were all answered.
C6_Witness ==
  /\ last.op = "abort"
  /\ chan.requestId > 0
  /\ chan.nworkers = 1
  /\ chan.terminated = {}
  /\ chan.worker = 1

\* C7: a message {id, error} for a pending id rejects exactly that entry's
\* promise with an Error of the worker's text and removes the entry; the other
\* entries stay pending, unchanged.
C7_ErrorRejectsThatEntry ==
  [][(/\ last'.op = "message"
      /\ last'.msg.id \in chan.pending
      /\ last'.msg.result = Undefined
      /\ last'.msg.error # Undefined)
       => /\ chan'.reqs[last'.msg.id].promise = Rejected(NewError(last'.msg.error))
          /\ chan'.pending = chan.pending \ {last'.msg.id}
          /\ \A id \in chan.pending \ {last'.msg.id} :
               chan'.reqs[id] = chan.reqs[id]]_vars

\* C8: a message for a pending id with both a result and an error rejects the
\* promise with the error; it does not resolve it.
C8_ErrorTakesPrecedence ==
  [][(/\ last'.op = "message"
      /\ last'.msg.id \in chan.pending
      /\ last'.msg.result # Undefined
      /\ last'.msg.error # Undefined)
       => chan'.reqs[last'.msg.id].promise = Rejected(NewError(last'.msg.error))]_vars

\* C9: a message without an id, or with an id that has no pending entry,
\* changes nothing: the pending table, the promises and the worker stay.
C9_UnknownIdDropped ==
  [][(/\ last'.op = "message"
      /\ (last'.msg.id = 0 \/ last'.msg.id \notin chan.pending))
       => (chan' = chan /\ mq' = mq)]_vars

\* A message has come for an id that was aborted, while another is pending.
C9_Witness ==
  /\ last.op = "message"
  /\ last.msg.id \in 1 .. chan.requestId
  /\ chan.reqs[last.msg.id].promise = AbortedPromise
  /\ chan.pending # {}

\* C10, as claimed: release() rejects every pending entry with AbortError,
\* terminates the worker and starts none, and no later send starts a worker
\* or posts a request.
C10_ReleasedChannelUnusable ==
  [][/\ last'.op = "release"
          => /\ chan'.pending = {}
             /\ \A id \in chan.pending : chan'.reqs[id].promise = AbortedPromise
             /\ chan'.worker = 0
             /\ chan'.nworkers = chan.nworkers
     /\ (last'.op = "send" /\ chan.worker = 0 /\ chan.terminated # {})
          => /\ chan'.nworkers = chan.nworkers
             /\ chan'.pending = chan.pending]_vars

\* C10, amended: release() rejects every pending entry with AbortError,
\* terminates the worker and starts none; the next send starts a new worker
\* and posts its request to it.
C10_ReleaseThenSendRestarts ==
  [][/\ last'.op = "release"
          => /\ chan'.pending = {}
             /\ \A id \in chan.pending : chan'.reqs[id].promise = AbortedPromise
             /\ chan.worker # 0 => chan.worker \in chan'.terminated
             /\ chan'.terminated \subseteq chan.terminated \cup {chan.worker}
             /\ chan'.worker = 0
             /\ chan'.nworkers = chan.nworkers
     /\ (last'.op = "send" /\ chan.worker = 0)
          => /\ chan'.nworkers = chan.nworkers + 1
             /\ chan'.worker = chan'.nworkers
             /\ chan'.worker \notin chan'.terminated
             /\ chan'.requestId \in chan'.pending
             /\ chan'.reqs[chan'.requestId].gen = chan'.worker]_vars

\* After a release that rejected a pending entry, a send has started a worker.
C10_Witness ==
  /\ last = Op("send", 1, NoMsg)
  /\ chan.terminated # {}
  /\ \E id \in 1 .. chan.requestId : chan.reqs[id].promise = AbortedPromise
  /\ chan.worker \notin chan.terminated

C12_JobsSettleInOrder ==
  \A j \in 1 .. Len(jobs) - 1 :
    /\ jobs[j + 1].state # "chained" => jobs[j].promise.state # "pending"
    /\ jobs[j + 1].req # 0 => jobs[j].promise.state # "pending"
    /\ jobs[j + 1].promise.state # "pending" => jobs[j].promise.state # "pending"

\* The first job has resolved, the second job's request is posted and
\* pending, and a third job, submitted meanwhile, waits in the chain.
C12_Witness ==
  /\ Len(jobs) = 3
  /\ jobs[1].promise.state = "resolved"
  /\ jobs[2].state = "started"
  /\ jobs[2].req \in chan.pending
  /\ jobs[3].state = "chained"
  /\ jobs[3].req = 0

\* C13: when a process request of the latest cycle is rejected with an error
\* other than AbortError, the cycle shows one error toast, prefixed
\* "Minifying error: ", and ends; no step of a cycle that has not finished
\* changes the cache or the display, so the failed cycle changed neither, also
\* when its first pass had succeeded.
C13_MinifyingErrorShownOnce ==
  [][\A c \in 1 .. Len(cycles) :
       LET acts   == last'.op \in {"cycleStart", "cycleResume"} /\ last'.n = c
           failed == /\ last'.op = "cycleResume" /\ last'.n = c
                     /\ c = ctl.latestCompressJobId
                     /\ jobs[cycles[c].job].promise.state = "rejected"
                     /\ jobs[cycles[c].job].promise.name # "AbortError"
           p      == jobs[cycles[c].job].promise
       IN  /\ failed
                => /\ ctl'.errors = Append(ctl.errors,
                                           [prefix |-> "Minifying error: ",
                                            name |-> p.name, message |-> p.value])
                   /\ cycles'[c].pc = "error"
                   /\ ctl'.cache = ctl.cache
                   /\ ctl'.displayed = ctl.displayed
           /\ (acts /\ cycles'[c].pc \in {"pass1", "pass2"})
                => /\ ctl'.errors = ctl.errors
                   /\ ctl'.cache = ctl.cache
                   /\ ctl'.displayed = ctl.displayed
           /\ cycles[c].pc = "error" => ~acts]_vars

\* A cycle of two passes has just failed in its second pass, the first having
\* given a file; an earlier cycle's file is displayed and cached.
C13_Witness ==
  \E c \in 2 .. Len(cycles) :
    /\ last = Op("cycleResume", c, NoMsg)
    /\ cycles[c].pc = "error"
    /\ cycles[c].job > 1
    /\ jobs[cycles[c].job - 1].awaiter = c
    /\ jobs[cycles[c].job - 1].promise.state = "resolved"
    /\ jobs[cycles[c].job].promise.name = "Error"
    /\ Len(ctl.errors) = 1
    /\ ctl.errors[1].prefix = "Minifying error: "
    /\ ctl.displayed # NoFile
    /\ ctl.displayed = cycles[c - 1].file
    /\ Match(ctl.cache, Fingerprint(cycles[c - 1].settings)) = ctl.displayed

\* The calls made on the cache since its construction are k calls of add,
\* with pairwise distinct fingerprints.
DistinctAdds(k) ==
  /\ Len(log) = k
  /\ \A i \in 1 .. k : log[i].op = "add"
  /\ \A i, j \in 1 .. k : i # j => log[i].fp # log[j].fp

\* C14: on a fresh cache of size N, N adds with pairwise distinct fingerprints
\* release nothing; one more releases the file added first, once, and no
\* other; then match on the first fingerprint gives undefined and match on
\* each of the other N fingerprints gives the file added with it.
C14_FirstAddedEvicted ==
  LET N == ctl.cache.size IN
  /\ (\E k \in 0 .. N : DistinctAdds(k)) => ctl.released = <<>>
  /\ DistinctAdds(N + 1)
       => /\ ctl.released = <<log[1].file>>
          /\ Match(ctl.cache, log[1].fp) = NoFile
          /\ \A i \in 2 .. N + 1 : Match(ctl.cache, log[i].fp) = log[i].file

\* A cache of the largest size has been filled and one more file added.
C14_Witness ==
  /\ ctl.cache.size = MaxCacheSize
  /\ DistinctAdds(MaxCacheSize + 1)
  /\ last.op = "add"
  /\ Len(ctl.released) = 1

\* C15: after any calls of add, match and purge on a cache of size N, at most
\* N entries are held and the cursor is in 0 .. N-1; add advances the cursor by
\* one modulo N, releases the file stored at the cursor's slot, if any, and no
\* other, and overwrites that slot only; match changes neither the entries
\* nor the cursor and releases nothing.
C15_CursorAndEviction ==
  [][LET N    == ctl.cache.size
         old  == ctl.cache
         new  == ctl'.cache
         slot == old.index + 1
     IN  /\ new.size = N
         /\ new.index \in 0 .. N - 1
         /\ Len(new.items) <= N
         /\ Len(new.fingerprints) = Len(new.items)
         /\ last'.op = "add"
              => /\ new.index = (old.index + 1) % N
                 /\ ctl'.released =
                      IF slot <= Len(old.items)
                      THEN Append(ctl.released, old.items[slot])
                      ELSE ctl.released
                 /\ new.items[slot] = log'[Len(log')].file
                 /\ new.fingerprints[slot] = log'[Len(log')].fp
                 /\ \A i \in 1 .. Len(old.items) :
                      i # slot => /\ new.items[i] = old.items[i]
                                  /\ new.fingerprints[i] = old.fingerprints[i]
                 /\ Len(new.items) = IF slot <= Len(old.items) THEN Len(old.items)
                                     ELSE Len(old.items) + 1
         /\ last'.op = "match"
              => /\ new = old
                 /\ ctl'.released = ctl.released]_vars

\* The cursor of a cache of size 2 has wrapped twice: the fourth add has
\* released the second file.
C15_Witness ==
  /\ ctl.cache.size = 2
  /\ last.op = "add"
  /\ Len(log) = 4
  /\ \A i \in 1 .. 4 : log[i].op = "add"
  /\ ctl.cache.index = 0
  /\ ctl.released = <<log[1].file, log[2].file>>
  /\ ctl.cache.items = <<log[3].file, log[4].file>>

\* The calls of add with fingerprint f among the calls from..Len(log).
AddsOf(f, from) == {i \in from .. Len(log) : log[i].op = "add" /\ log[i].fp = f}

Purges == {i \in 1 .. Len(log) : log[i].op = "purge"}

Released == {ctl.released[i] : i \in 1 .. Len(ctl.released)}

\* The calls of add whose file the cache holds for f: those since the last
\* purge whose file was not released.
Live(f) ==
  {i \in AddsOf(f, IF Purges = {} THEN 1 ELSE Max(Purges) + 1) :
     log[i].file \notin Released}

\* The slot the i-th call wrote, a call of add: the cursor starts at 0 after
\* the last purge and each add advances it by one modulo the size.
SlotOf(i) == (i - (IF Purges = {} THEN 0 ELSE Max(Purges)) - 1) % ctl.cache.size

\* C16, as claimed: match(f) gives undefined when f was never added or every
\* file added with f has been evicted or purged; in a sequence of adds where
\* a file of f was evicted and f was added again after that, match(f) gives
\* the file most recently added with f.
C16_MatchGivesLatest ==
  \A f \in Keys :
    LET N       == ctl.cache.size
        live    == Live(f)
        \* without purges, the file of the i-th add is released by add i + N
        readded == /\ Purges = {}
                   /\ \E i, j \in AddsOf(f, 1) :
                        log[i].file \in Released /\ j > i + N
    IN  /\ live = {} => Match(ctl.cache, f) = NoFile
        /\ (readded /\ live # {}) => Match(ctl.cache, f) = log[Max(live)].file

\* C17: purge() leaves the cache without entries and with its cursor at 0,
\* and calls release on no file; after it match gives undefined for every
\* fingerprint, and none of the next N adds releases a file.
C17_PurgeDropsWithoutRelease ==
  [][LET N == ctl.cache.size IN
     /\ last'.op = "purge"
          => /\ ctl'.cache = [size |-> N, fingerprints |-> <<>>, items |-> <<>>,
                              index |-> 0]
             /\ ctl'.released = ctl.released
             /\ \A f \in Keys : Match(ctl'.cache, f) = NoFile
     /\ (last'.op = "add" /\ Purges # {} /\ Len(log) - Max(Purges) < N)
          => ctl'.released = ctl.released]_vars

\* A full cache of size 2 was purged and two files were added since: none of
\* the four files added was released.
C17_Witness ==
  /\ ctl.cache.size = 2
  /\ Len(log) = 5
  /\ Purges = {3}
  /\ last.op = "add"
  /\ ctl.released = <<>>
  /\ ctl.cache.items = <<log[4].file, log[5].file>>

\* C16, amended: match(f) gives undefined when the cache holds no file of f
\* (f was never added, or every file added with f was evicted or purged);
\* when it holds exactly one, also after f was evicted and added again, match
\* gives that file, the one most recently added with f; when it holds
\* several, match gives the one in the lowest slot, whichever was added last.
C16_MatchGivesLowestSlot ==
  \A f \in Keys :
    LET live == Live(f) IN
    /\ live = {} => Match(ctl.cache, f) = NoFile
    /\ Cardinality(live) = 1 => Match(ctl.cache, f) = log[Max(live)].file
    /\ live # {}
         => \E i \in live :
              /\ Match(ctl.cache, f) = log[i].file
              /\ \A j \in live : SlotOf(i) <= SlotOf(j)

\* In a cache of size 2, f was added four times: the first two files were
\* evicted, and match(f) gives the third file, not the fourth.
C16_Witness ==
  /\ ctl.cache.size = 2
  /\ Len(log) = 4
  /\ \E f \in Keys :
       /\ AddsOf(f, 1) = 1 .. 4
       /\ Live(f) = {3, 4}
       /\ Match(ctl.cache, f) = log[3].file
       /\ Match(ctl.cache, f) # log[4].file

\* Two states of the panel agree on every input that bears on compression:
\* every global input other than original and gzip, and every plugin.
SameCompression(s, t) ==
  \A i \in 1 .. Len(PanelInputs) :
    PanelInputs[i] \notin {"original", "gzip"} => s[PanelInputs[i]] = t[PanelInputs[i]]

\* C18: the fingerprint of a panel that has not changed is the same string,
\* and two states of the panel that differ only in original and gzip have
\* the same fingerprint.
C18_PresentationOptionsIgnored ==
  /\ [][ctl'.settings = ctl.settings
          => Fingerprint(ctl'.settings) = Fingerprint(ctl.settings)]_vars
  /\ [](\A t \in AllSettings :
          SameCompression(ctl.settings, t)
            => Fingerprint(t) = Fingerprint(ctl.settings))

\* The user has checked original on a panel where gzip is checked and the
\* options of compression are not the initial ones.
C18_Witness ==
  /\ last.op = "toggle"
  /\ PanelInputs[last.n] = "original"
  /\ ctl.settings.original
  /\ ctl.settings.gzip
  /\ ctl.settings.plugin2
  /\ ctl.settings.floatPrecision # DefaultSettings.floatPrecision
  /\ Fingerprint(ctl.settings) =
       Fingerprint([ctl.settings EXCEPT !.original = FALSE, !.gzip = FALSE])

\* C19: two states of the panel that differ in an input that bears on
\* compression (a global input other than original and gzip, or a plugin)
\* have different fingerprints.
C19_CompressionOptionsDistinguished ==
  \A t \in AllSettings :
    ~SameCompression(ctl.settings, t) => Fingerprint(t) # Fingerprint(ctl.settings)

\* The user has moved the range on a panel that differs from the initial one
\* in a plugin and a global checkbox as well.
C19_Witness ==
  /\ last.op = "range"
  /\ ctl.settings.floatPrecision # DefaultSettings.floatPrecision
  /\ ctl.settings.plugin
  /\ ctl.settings.remUnusualAttributes
  /\ Fingerprint(ctl.settings) # Fingerprint(DefaultSettings)
  /\ Fingerprint(ctl.settings) # Fingerprint([ctl.settings EXCEPT !.plugin = FALSE])

\* C20: a cycle whose settings have original set displays the input file as
\* it was loaded, posts no request to the worker, chains no job, and neither
\* calls match on the cache nor changes it; then the cycle is over.  The
\* settings change that starts it posts and chains nothing either.
C20_ShowOriginalShortCircuits ==
  [][/\ (last'.op = "settingsChange" /\ ctl'.settings.original)
          => /\ chan'.requestId = chan.requestId
             /\ jobs' = jobs
             /\ ctl'.cache = ctl.cache
             /\ ctl'.matches = ctl.matches
     /\ \A c \in 1 .. Len(cycles) :
          LET acts == last'.op \in {"cycleStart", "cycleResume"} /\ last'.n = c IN
          /\ (acts /\ cycles[c].settings.original /\ c = ctl.latestCompressJobId)
               => /\ last'.op = "cycleStart"
                  /\ cycles'[c].pc = "original"
                  /\ ctl'.displayed = ctl.inputItem
                  /\ ctl'.displayed.text.passes = 0
                  /\ ctl'.displayed.text.cleans = 0
                  /\ chan' = chan
                  /\ jobs' = jobs
                  /\ ctl'.cache = ctl.cache
                  /\ ctl'.matches = ctl.matches
          /\ cycles[c].pc = "original" => ~acts]_vars

\* After a settings change that set original while a job was in flight, the
\* input file is displayed, although the cache holds a file for the
\* fingerprint of these settings.
C20_Witness ==
  \E c \in 2 .. Len(cycles) :
    /\ last = Op("cycleStart", c, NoMsg)
    /\ cycles[c].pc = "original"
    /\ cycles[c].before = "pass1"
    /\ ctl.settings.original
    /\ ctl.displayed = ctl.inputItem
    /\ Match(ctl.cache, Fingerprint(cycles[c].settings)) # NoFile
    /\ ctl.displayed # Match(ctl.cache, Fingerprint(cycles[c].settings))

\* C21: a settings change whose fingerprint is in the cache leaves the channel
\* as it is, whatever is in flight: nothing is posted, no pending entry is
\* rejected, the worker is neither terminated nor replaced; the cycle it starts
\* displays the cached file and changes neither the channel nor the cache.
C21_HitTouchesNoChannel ==
  [][/\ (/\ last'.op = "settingsChange"
         /\ ~ctl'.settings.original
         /\ Match(ctl.cache, Fingerprint(ctl'.settings)) # NoFile)
          => chan' = chan
     /\ \A c \in 1 .. Len(cycles) :
          (last'.op = "cycleStart" /\ last'.n = c /\ cycles'[c].pc = "hit")
            => /\ chan' = chan
               /\ jobs' = jobs
               /\ ctl'.cache = ctl.cache
               /\ ctl'.displayed = Match(ctl.cache, Fingerprint(cycles[c].settings))]_vars

\* The process requests posted for cycle c, in the order they were posted.
RequestsOf(c) ==
  {id \in 1 .. chan.requestId :
     /\ chan.reqs[id].action = "process"
     /\ chan.reqs[id].owner[1] = "job"
     /\ jobs[chan.reqs[id].owner[2]].awaiter = c}

\* C22: a cycle that missed the cache and ended with a file has posted one
\* process request when neither cleanup option is set and two when one is,
\* the second on the cleanup transform of the text the first pass gave; no
\* cycle posts more than two.
C22_OneOrTwoPasses ==
  \A c \in 1 .. Len(cycles) :
    LET cyc  == cycles[c]
        reqs == RequestsOf(c)
        J    == {j \in 1 .. Len(jobs) : jobs[j].awaiter = c}
        cleanup == cyc.settings.remUnusedTextCode \/ cyc.settings.remUnusualAttributes
    IN  /\ Cardinality(reqs) <= 2
        /\ Cardinality(J) <= 2
        /\ cyc.pc = "done"
             => /\ Cardinality(reqs) = IF cleanup THEN 2 ELSE 1
                /\ Cardinality(J) = Cardinality(reqs)
                /\ \A j \in J : jobs[j].promise.state = "resolved"
                /\ cyc.file = jobs[Max(J)].file
                /\ jobs[Min(J)].text.passes = 0
                /\ cleanup
                     => /\ jobs[Max(J)].text = PassText(cyc.settings, jobs[Min(J)].file.text)
                        /\ jobs[Max(J)].text.cleans = jobs[Min(J)].file.text.cleans +
                             Number(cyc.settings.remUnusedTextCode) +
                             Number(cyc.settings.remUnusualAttributes)
                        /\ cyc.file.text.passes = 2
                /\ ~cleanup => cyc.file.text.passes = 1

\* A cycle with only remUnusualAttributes set has ended after two passes, and
\* a cycle without cleanup before it after one.
C22_Witness ==
  \E c, d \in 1 .. Len(cycles) :
    /\ cycles[c].pc = "done"
    /\ cycles[c].settings.remUnusualAttributes
    /\ ~cycles[c].settings.remUnusedTextCode
    /\ Cardinality(RequestsOf(c)) = 2
    /\ cycles[d].pc = "done"
    /\ ~cycles[d].settings.remUnusedTextCode
    /\ ~cycles[d].settings.remUnusualAttributes
    /\ Cardinality(RequestsOf(d)) = 1
    /\ last = Op("cycleResume", c, NoMsg)

\* The cycle the last successful load started (0: none): the cache was purged
\* just before it.
LastLoadCycle == Max({0} \cup {loads[l].cycle : l \in 1 .. Len(loads)})

\* C23: when a cycle that missed the cache ends with a file, that file is
\* displayed and is what the cache gives for the fingerprint of the cycle's
\* settings; a later cycle on the same input whose settings have that
\* fingerprint (and not original) is a hit on that file: it displays it and
\* no process request is posted for it.
C23_SuccessIsCachedForNextTime ==
  /\ \A c \in 1 .. Len(cycles) :
       (last = Op("cycleResume", c, NoMsg) /\ cycles[c].pc = "done")
         => /\ c = ctl.latestCompressJobId
            /\ ctl.displayed = cycles[c].file
            /\ cycles[c].file # NoFile
            /\ cycles[c].file.text.fp = Fingerprint(cycles[c].settings)
            /\ cycles[c].file.text.input = ctl.inputItem.text.input
            /\ Match(ctl.cache, Fingerprint(cycles[c].settings)) = cycles[c].file
  /\ \A c, d \in 1 .. Len(cycles) :
       (/\ LastLoadCycle <= c /\ c < d
        /\ cycles[c].pc = "done"
        /\ Fingerprint(cycles[d].settings) = Fingerprint(cycles[c].settings)
        /\ ~cycles[d].settings.original
        /\ cycles[d].pc # "awaitAbort")
         => /\ cycles[d].pc = "hit"
            /\ cycles[d].file = cycles[c].file
            /\ RequestsOf(d) = {}
            /\ \A j \in 1 .. Len(jobs) : jobs[j].awaiter # d
            /\ (last = Op("cycleStart", d, NoMsg) => ctl.displayed = cycles[c].file)

\* A cycle that missed ended with a file; after a cycle with other settings,
\* a third cycle with the first one's fingerprint has hit the cache.
C23_Witness ==
  \E c, d \in 1 .. Len(cycles) :
    /\ d = c + 2
    /\ LastLoadCycle <= c
    /\ cycles[c].pc = "done"
    /\ Cardinality(RequestsOf(c)) = 1
    /\ Fingerprint(cycles[c + 1].settings) # Fingerprint(cycles[c].settings)
    /\ cycles[d].pc = "hit"
    /\ cycles[d].file = cycles[c].file
    /\ last = Op("cycleStart", d, NoMsg)
    /\ ctl.displayed = cycles[c].file

\* What a load does once its input is wrapped: the cache is empty, a new call
\* of _compressSvg is the latest one, for the settings the panel holds and on
\* the new input, and nothing is pending in the channel.
LoadStartsAfresh(l) ==
  /\ ctl'.cache = NewCache(CacheSize)
  /\ ctl'.inputItem.text = OriginalText(loads[l].data)
  /\ ctl'.inputItem \notin {ctl.inputItem, ctl.displayed}
  /\ Len(cycles') = Len(cycles) + 1
  /\ ctl'.latestCompressJobId = Len(cycles')
  /\ loads'[l].cycle = Len(cycles')
  /\ cycles'[Len(cycles')].settings = ctl'.settings
  /\ cycles'[Len(cycles')].pc = "awaitAbort"
  /\ chan'.pending = {}

\* A step of a call of _compressSvg made before the last load: it displays
\* nothing, caches nothing and reports nothing.
OldCycleStepIsSilent(c) ==
  /\ ctl'.displayed = ctl.displayed
  /\ ctl'.cache = ctl.cache
  /\ ctl'.errors = ctl.errors
  /\ cycles'[c].pc \in {"aborted", "superseded"}

Owned ==
  {ctl.cache.items[i].n : i \in DOMAIN ctl.cache.items}
    \cup {ctl.inputItem.n, ctl.displayed.n}

\* How many times the url of file n was given to URL.revokeObjectURL.
Revocations(n) == Cardinality({i \in 1 .. Len(ctl.revoked) : ctl.revoked[i] = n})

\* C25 as stated: a file whose url was created and that no slot owns any more
\* has had its url revoked, and no url is revoked twice.
C25_UrlRevokedOnceWhenUnowned ==
  \A n \in ctl.urls :
    /\ n \notin Owned => Revocations(n) = 1
    /\ Revocations(n) <= 1

\* The calls of size() on file n so far, and those that made gzip send.
SizeCalls(n) == {i \in 1 .. Len(log) : log[i].file = n}
SizeSent(n) == {i \in SizeCalls(n) : log[i].req # 0}

\* C26: whatever calls of size() a file gets, gzip is sent at most one
\* request for it, by the first call with compress, and none when no call
\* has compress; every request of gzip is such a first call's.
C26_CompressedSizeMemoized ==
  /\ \A n \in 1 .. ctl.nfiles :
       LET compressing == {i \in SizeCalls(n) : log[i].compress} IN
       /\ Cardinality(SizeSent(n)) <= 1
       /\ compressing = {} => SizeSent(n) = {}
       /\ compressing # {} => SizeSent(n) = {Min(compressing)}
  /\ chan.requestId = Cardinality({i \in 1 .. Len(log) : log[i].req # 0})
  /\ \A i, j \in 1 .. Len(log) : (log[i].req # 0 /\ log[i].req = log[j].req) => i = j

\* A file was asked its size without compress, then with compress; gzip's
\* worker answered with an error; the file was asked with compress again, and
\* gzip was sent one request in all.
C26_Witness ==
  /\ Len(log) = 3
  /\ \A i \in 1 .. 3 : log[i].file = 1
  /\ ~log[1].compress /\ log[2].compress /\ log[3].compress
  /\ chan.requestId = 1
  /\ chan.reqs[1].promise.state = "rejected"
  /\ last = Op("size", 1, NoMsg)

\* The ids requestResponse has given out so far.
Issued == DOMAIN chan.reqs

\* C27: the id a call of requestResponse gives out is positive, one more than
\* the last and larger than every id given out before, whatever aborts,
\* releases and worker restarts came between; abort, release and messages
\* leave the counter and the ids given out as they are.
C27_IdsIncreaseForever ==
  [][/\ last'.op = "send"
          => /\ chan'.requestId > 0
             /\ chan'.requestId = chan.requestId + 1
             /\ \A k \in Issued : 0 < k /\ k < chan'.requestId
             /\ DOMAIN chan'.reqs = Issued \cup {chan'.requestId}
             /\ chan'.pending = chan.pending \cup {chan'.requestId}
     /\ last'.op \in {"abort", "release", "message"}
          => /\ chan'.requestId = chan.requestId
             /\ DOMAIN chan'.reqs = Issued]_vars

\* The third id was given out by a send that had to start the third worker:
\* an abort and a release have each ended a worker before.
C27_Witness ==
  /\ last = Op("send", 1, NoMsg)
  /\ chan.requestId = 3
  /\ Issued = {1, 2, 3}
  /\ chan.nworkers = 3
  /\ chan.terminated = {1, 2}
  /\ chan.reqs[1].promise = AbortedPromise
  /\ chan.reqs[2].promise = AbortedPromise
  /\ chan.pending = {3}

\* C28: an entry leaves the pending table once, by a message with its id or by
\* the sweep of abort or release, and that settles its promise; it never comes
\* back and a settled promise never changes, so a second message for the id
\* changes nothing.  A step that ends a worker leaves the table empty, a step
\* that starts the first worker after none found it empty, and the entries of
\* a non-empty table were all posted to the worker now running.
C28_PendingEntryLifecycle ==
  [][/\ \A id \in Issued :
          /\ (id \in chan.pending /\ id \notin chan'.pending)
               => /\ \/ last'.op = "message" /\ last'.msg.id = id
                     \/ last'.op \in {"abort", "release"}
                  /\ chan.reqs[id].promise = PendingPromise
                  /\ chan'.reqs[id].promise # PendingPromise
          /\ id \notin chan.pending
               => /\ id \notin chan'.pending
                  /\ chan.reqs[id].promise # PendingPromise
                  /\ chan'.reqs[id].promise = chan.reqs[id].promise
          /\ (id \in chan.pending /\ id \in chan'.pending)
               => chan'.reqs[id] = chan.reqs[id]
     /\ (last'.op = "message" /\ last'.msg.id \notin chan.pending) => chan' = chan
     /\ (chan.worker # 0 /\ chan'.worker # chan.worker)
          => /\ chan'.pending = {}
             /\ chan.worker \in chan'.terminated
             /\ last'.op \in {"abort", "release"}
     /\ (chan.worker = 0 /\ chan'.worker # 0) => chan.pending = {}
     /\ chan'.pending # {}
          => /\ chan'.worker # 0
             /\ chan'.worker \notin chan'.terminated
             /\ \A id \in chan'.pending : chan'.reqs[id].gen = chan'.worker]_vars

\* The worker answered request 1 with a result and then, request 2 pending,
\* sent an error for request 1 again: the promise of 1 stays resolved.
C28_Witness ==
  /\ last.op = "message"
  /\ last.msg.id = 1
  /\ Truthy(last.msg.error)
  /\ chan.reqs[1].promise.state = "resolved"
  /\ chan.pending = {2}
  /\ chan.terminated = {}

\* The terminated workers that were posted the message of request id: a
\* message with that id can be a late response of one of them.
LateFrom(id) == {g \in chan.terminated : <<g, id>> \in chan.posted}

\* C29: a message carrying the id of a request that was posted to a worker
\* terminated since changes nothing: it settles no entry, so none made after
\* that worker ended; and no pending entry was posted to a terminated worker.
C29_LateResponseSettlesNothing ==
  [][/\ (last'.op = "message" /\ LateFrom(last'.msg.id) # {})
          => /\ chan' = chan
             /\ \A id \in chan.pending :
                  /\ chan.reqs[id].gen > Max(LateFrom(last'.msg.id))
                  /\ chan'.reqs[id].promise = PendingPromise
     /\ \A id \in chan'.pending : LateFrom(id) = {}]_vars

\* Request 1 was posted to the first worker and swept by an abort; request 2
\* is pending on the second worker when a result for request 1 arrives.
C29_Witness ==
  /\ last.op = "message"
  /\ last.msg.id = 1
  /\ last.msg.result # Undefined
  /\ ~Truthy(last.msg.error)
  /\ LateFrom(1) = {1}
  /\ chan.reqs[1].promise = AbortedPromise
  /\ chan.pending = {2}
  /\ chan.reqs[2].gen = 2
  /\ chan.reqs[2].promise = PendingPromise

\* A job before job j was rejected.
AfterRejection(j) == \E i \in 1 .. j - 1 : jobs[i].promise.state = "rejected"

\* C30: a job submitted after a rejected one goes on as the first job does.
\* Once the job before it has settled and the reactions have run, its
\* request is posted, to the worker running then; no job settles without
\* its request having been posted; and if the worker answered the request
\* with a result, the job's promise resolves with the file made from that
\* job's text and settings.
C30_RejectionDoesNotPoison ==
  \A j \in 2 .. Len(jobs) :
    AfterRejection(j) =>
      LET job == jobs[j] IN
      /\ (mq = <<>> /\ jobs[j - 1].promise.state # "pending") => job.req # 0
      /\ job.state = "chained" <=> job.req = 0
      /\ job.req # 0 =>
           LET r == chan.reqs[job.req] IN
           /\ r.action = "process"
           /\ job.req \in chan.pending
                => /\ r.gen = chan.worker
                   /\ chan.worker \notin chan.terminated
                   /\ job.promise = PendingPromise
           /\ last = Op("fnStart", j, NoMsg) => job.req \in chan.pending
           /\ r.gen \in chan.terminated => r.promise # PendingPromise
           /\ (job.state = "settled" /\ r.promise.state = "resolved"
                 /\ r.promise.value # Undefined)
                => /\ job.promise.state = "resolved"
                   /\ job.file.text = Optimized(job.text, job.fp)
                   /\ job.file.text.fp = ToString(j)
                   /\ \A i \in 1 .. Len(jobs) : jobs[i].file = job.file => i = j

\* The first job was rejected with the worker's error and the second with
\* AbortError; the third, posted to the worker started by the abort, has
\* resolved with its file.
C30_Witness ==
  /\ Len(jobs) = 3
  /\ jobs[1].promise.state = "rejected"
  /\ jobs[1].promise # AbortedPromise
  /\ jobs[2].promise = AbortedPromise
  /\ jobs[3].promise.state = "resolved"
  /\ jobs[3].file.text = Optimized(jobs[3].text, "3")
  /\ chan.reqs[jobs[3].req].gen = 2
  /\ chan.terminated = {1}
  /\ mq = <<>>

\* A call of _compressSvg has returned: a cache hit, the original shown, a
\* result shown and cached, an abort or a superseded call dropped without a
\* word, or an error reported.
Returned(c) ==
  cycles[c].pc \in {"hit", "original", "done", "aborted", "superseded", "error"}

\* C31: with a fair event loop and a worker that answers what is pending,
\* every call of _compressSvg returns: again and again (a call that has
\* returned stays so) all the calls made so far have returned.
C31_EveryCycleReturns ==
  []<>(\A c \in 1 .. Len(cycles) : Returned(c))

\* A cycle of two passes that was started while another awaited its request
\* has returned with a result.
C31_Witness ==
  \E c \in 2 .. Len(cycles) :
    /\ cycles[c].pc = "done"
    /\ cycles[c].before = "pass1"
    /\ Cardinality(RequestsOf(c)) = 2
    /\ cycles[c - 1].pc = "aborted"
    /\ mq = <<>>
    /\ chan.pending = {}

\* The slots of the controller's cache that hold a file.
LiveSlots == {i \in 0 .. ctl.cache.size - 1 : ItemAt(ctl.cache, i) # NoFile}

\* C32: no two slots of the controller's cache hold the same file or the
\* same fingerprint, and no slot holds the current input; the cache changes
\* only by a load's purge or by the add of a cycle whose fingerprint the
\* cache did not hold.
C32_NoTwoSlotsAlike ==
  /\ \A i, j \in LiveSlots :
       i # j => /\ ItemAt(ctl.cache, i).n # ItemAt(ctl.cache, j).n
                /\ ctl.cache.fingerprints[i + 1] # ctl.cache.fingerprints[j + 1]
  /\ \A i \in LiveSlots :
       /\ ItemAt(ctl.cache, i).n # ctl.inputItem.n
       /\ ItemAt(ctl.cache, i).text.fp = ctl.cache.fingerprints[i + 1]
       /\ \E c \in 1 .. Len(cycles) :
            /\ cycles[c].pc = "done"
            /\ cycles[c].file = ItemAt(ctl.cache, i)
            /\ Cardinality(RequestsOf(c)) >= 1
  /\ Len(ctl.cache.items) = Len(ctl.cache.fingerprints)
  /\ Cardinality(LiveSlots) = Len(ctl.cache.items)

\* The cache holds two files: a cycle ended with the first, a cycle with
\* the same fingerprint started while no request was pending hit it, and a
\* third cycle ended with the second.
C32_Witness ==
  /\ Len(cycles) = 3
  /\ cycles[1].pc = "done"
  /\ cycles[2].pc = "hit"
  /\ cycles[2].file = cycles[1].file
  /\ cycles[3].pc = "done"
  /\ LiveSlots = {0, 1}
  /\ ItemAt(ctl.cache, 0) = cycles[1].file
  /\ ItemAt(ctl.cache, 1) = cycles[3].file
  /\ last = Op("cycleResume", 3, NoMsg)

\* Nothing is in flight: no reaction queued, no request pending.
Settled == mq = <<>> /\ chan.pending = {} /\ ctl.subs = <<>>

\* C33 as stated: once nothing is in flight, and no size request having
\* failed, the sizes shown are sizes of the file that is displayed.
C33_SizesShownAreOfDisplayed ==
  (/\ Settled
   /\ ctl.updates # <<>>
   /\ \A u \in 1 .. Len(ctl.updates) : ctl.updates[u].pc = "shown")
    => /\ ctl.shown # 0
       /\ ctl.updates[ctl.shown].file = ctl.displayed

\* The worker has reported no error: every request that was rejected was
\* rejected by an abort, and every response carried a result.
NoWorkerError ==
  \A id \in DOMAIN chan.reqs :
    LET p == chan.reqs[id].promise IN
    /\ p.state = "rejected" => p = AbortedPromise
    /\ p.state = "resolved" => p.value # Undefined

\* C34 as stated: after two loads or more, the worker having reported no
\* error and nothing being in flight, the last load has succeeded, the
\* current input is the one it loaded and the file displayed derives from it.
C34_LastLoadWins ==
  (/\ Len(loads) >= 2
   /\ NoWorkerError
   /\ mq = <<>> /\ chan.pending = {})
    => LET l == Len(loads) IN
       /\ loads[l].pc = "loaded"
       /\ ctl.inputItem.text = OriginalText(loads[l].data)
       /\ ctl.displayed.text.input = loads[l].data
       /\ \A e \in 1 .. Len(ctl.errors) : ctl.errors[e].prefix # "Load failed: "

\* C35: a load whose wrapOriginal promise is rejected shows one error, with
\* the prefix "Load failed: " and the rejection's message, and changes nothing
\* else: the input, its filename, the cache, the latest job token, the
\* display, the cycles, the jobs and the channel are as they were; the call
\* of _onInputChange that began the load changed none of them either, beyond
\* posting the wrapOriginal request.
C35_FailedLoadChangesNothing ==
  [][/\ \A l \in 1 .. Len(loads) :
          (last'.op = "load" /\ last'.n = l /\ loads[l].wrapped.state = "rejected")
            => /\ loads'[l].pc = "failed"
               /\ ctl' = [ctl EXCEPT !.errors =
                            Append(@, [prefix |-> "Load failed: ",
                                       name |-> loads[l].wrapped.name,
                                       message |-> loads[l].wrapped.value])]
               /\ cycles' = cycles /\ jobs' = jobs /\ chan' = chan
               /\ mq' = Tail(mq)
     /\ last'.op = "inputChange"
          => /\ ctl' = ctl /\ cycles' = cycles /\ jobs' = jobs
             /\ chan'.pending = chan.pending \cup {chan'.requestId}]_vars

\* After a load and a finished cycle, the worker answered a second load's
\* wrapOriginal request with an error: the error is shown, and the input, the
\* cache and the display are those of the first load.
C35_Witness ==
  /\ Len(loads) = 2
  /\ loads[1].pc = "loaded"
  /\ loads[2].pc = "failed"
  /\ loads[2].wrapped.name = "Error"
  /\ last = Op("load", 2, NoMsg)
  /\ Len(ctl.errors) = 1
  /\ ctl.errors[1].prefix = "Load failed: "
  /\ ctl.inputItem.text = OriginalText(loads[1].data)
  /\ cycles[1].pc = "done"
  /\ Match(ctl.cache, Fingerprint(cycles[1].settings)) = cycles[1].file
  /\ ctl.displayed = cycles[1].file
  /\ ctl.latestCompressJobId = 1

\* C36: a file the cache has released on eviction is not the file
\* displayed, is in no slot of the cache and is what match returns for no
\* fingerprint, its own included; its url, created when it was displayed,
\* has been revoked once.
C36_EvictedIsGone ==
  \A f \in Released :
    /\ f # ctl.displayed
    /\ f # ctl.inputItem
    /\ \A i \in LiveSlots : ItemAt(ctl.cache, i) # f
    /\ \A s \in Settings : Match(ctl.cache, Fingerprint(s)) # f
    /\ f.n \in ctl.urls
    /\ Revocations(f.n) = 1

\* A cycle's add has just evicted the result of the cycle before, which
\* was displayed until this step: the new result is displayed, and the
\* evicted one's fingerprint is a miss.
C36_Witness ==
  \E c \in 2 .. Len(cycles) :
    /\ last = Op("cycleResume", c, NoMsg)
    /\ cycles[c].pc = "done"
    /\ cycles[c - 1].pc = "done"
    /\ ctl.released = <<cycles[c - 1].file>>
    /\ ctl.displayed = cycles[c].file
    /\ Match(ctl.cache, Fingerprint(cycles[c - 1].settings)) = NoFile
    /\ Match(ctl.cache, Fingerprint(cycles[c].settings)) = cycles[c].file

\* C37: every file in the controller's cache was made from the text of the
\* current input, with the settings whose fingerprint its slot carries, by
\* a cycle started since that input was loaded.
C37_CacheIsOfCurrentInput ==
  \A i \in LiveSlots :
    LET f == ItemAt(ctl.cache, i) IN
    /\ f.text.input = ctl.inputItem.text.input
    /\ f.text.passes >= 1
    /\ \E c \in 1 .. Len(cycles) :
         /\ c >= LastLoadCycle
         /\ cycles[c].pc = "done"
         /\ cycles[c].file = f

\* A second load, of another document, was begun while a cycle of the
\* first input awaited its request, and has succeeded; a cycle for the new
\* input has ended, and the cache holds its result alone.
C37_Witness ==
  /\ Len(loads) = 2
  /\ loads[2].pc = "loaded"
  /\ loads[2].data # loads[1].data
  /\ Len(cycles) = 2
  /\ cycles[1].pc = "aborted"
  /\ cycles[2].pc = "done"
  /\ LiveSlots = {0}
  /\ ItemAt(ctl.cache, 0) = cycles[2].file
  /\ ItemAt(ctl.cache, 0).text.input = loads[2].data

\* The latest call of _compressSvg awaits svgo.process and the request that
\* process posted is pending with the worker.
LatestProcessOutstanding ==
  LET c == ctl.latestCompressJobId IN
  /\ c \in 1 .. Len(cycles)
  /\ cycles[c].pc \in {"pass1", "pass2"}
  /\ jobs[cycles[c].job].state = "started"
  /\ jobs[cycles[c].job].req \in chan.pending

\* C38 as stated: while the latest cycle has a process request outstanding,
\* the download button's spinner is in its working state.
C38_SpinnerWorksWhileLatestRuns ==
  LatestProcessOutstanding => ctl.spinner = "working"

\* C39 as stated: when install has called skipWaiting, either no active
\* version is recorded or the recorded one has the new version's major
\* version; and the record changes only when an activate listener sets it
\* to its own version.
C39_SkipWaitingOnlyOnSameMajor ==
  /\ [](\A s \in Workers :
          (last = Op("installEnd", s, NoMsg) /\ sw.workers[s].skipWaiting)
            => SkipsWaiting(sw.store, sw.workers[s].version))
  /\ [][sw'.store # sw.store
          => /\ last'.op = "activateSet"
             /\ sw'.store = sw.workers[last'.n].version]_vars

====
